---- MODULE Spec2Model ----
(***************************************************************************)
(* Decision coordinator (at_meta_agent/app.py) and portfolio risk engine   *)
(* (at_meta_agent/risk_engine.py) of the NEO trading platform.             *)
(*                                                                         *)
(* Money amounts, prices and share quantities are integers.  A voted       *)
(* quantity and a confidence are exact fractions <<n, d>> with d > 0, so   *)
(* that the divisions of the voting functions are computed, not assumed.   *)
(* Wall-clock time is the UTC minute `now`.                                *)
(***************************************************************************)
EXTENDS Integers, Sequences, FiniteSets, TLC

(***************************************************************************)
(* Bounds of the model.                                                    *)
(***************************************************************************)
MaxMinute == 2
MaxShares == 1000
MaxViolations == 3
MaxSubmit == 3
MaxInFlight == 2
MaxOrders == 2
MaxControl == 1
MaxBallot == 3
MaxTrades == 3
MaxCalls == 4
MaxRedeliver == 1
MaxHistory == 11
MaxLone == 4

(***************************************************************************)
(* Input sets.                                                             *)
(***************************************************************************)
Symbols == {"AAPL"}
CheckSymbols == {"AAPL", "MSFT", "XYZ"}
Actions == {"BUY", "SELL", "HOLD"}
TradePrices == {100}
MarketPrices == {50}
CheckQtys == {1, 500, 1000}
CheckPrices == {100}
TradeQtys == {-1000, 0, 1000}
Reasons == {"manual"}
BlockSymbols == {"AAPL"}
PauseIds == {"AAPL"}
EstimatedPrice == 100
\* an optional parameter is <<>> (not given) or <<value>>
ExposureInputs == {<<40000>>}
PositionValueInputs == {<<50>>}
None == "None"

VARIABLES
    \* PortfolioRiskEngine
    risk_limits, positions, daily_pnl, daily_start_value, order_count,
    order_count_default, violations, kill_switch_active, blocked_symbols,
    \* MetaAgentService
    agent_decisions, voting_strategy, risk_overrides, paused_strategies,
    symbol_limits,
    \* handlers of _handle_agent_decision suspended at an await
    handlers,
    \* messages accepted by js.publish on decisions.meta and risk.violations
    published, emitted,
    \* number of order intents delivered so far, and the handlers that ended
    submitted, rounds,
    \* number of calls of the control endpoints so far
    controls,
    \* the decisions handed to a vote on their own, and what the vote and the
    \* override pipeline made of them
    ballot, outcome,
    \* the fills booked so far, in order
    trades,
    \* the operations of the engine called so far, in order
    calls,
    \* the deliveries JetStream made on decisions.order_intent, in order
    deliveries,
    \* the UTC minute datetime.utcnow() falls in
    now,
    \* what the most recent call returned, when it was check_order_risk
    last

engineVars == <<risk_limits, positions, daily_pnl, daily_start_value,
                order_count, order_count_default, violations,
                kill_switch_active, blocked_symbols>>

serviceVars == <<agent_decisions, voting_strategy, risk_overrides,
                 paused_strategies, symbol_limits, handlers, published,
                 emitted, submitted, rounds>>

harnessVars == <<ballot, outcome, trades, calls, deliveries>>

vars == <<engineVars, serviceVars, controls, harnessVars, now, last>>

(***************************************************************************)
(* Arithmetic helpers.                                                     *)
(***************************************************************************)
Abs(x) == IF x < 0 THEN -x ELSE x

RECURSIVE Gcd(_, _)
Gcd(a, b) == IF b = 0 THEN a ELSE Gcd(b, a % b)

\* the fraction n/d (d # 0) in lowest terms with a positive denominator
Frac(n, d) ==
    LET g == Gcd(Abs(n), Abs(d))
        s == IF d < 0 THEN -1 ELSE 1
    IN  <<(s * n) \div g, (s * d) \div g>>

RECURSIVE SumOver(_, _)
SumOver(S, f) ==
    IF S = {} THEN 0
    ELSE LET x == CHOOSE y \in S : TRUE
         IN  f[x] + SumOver(S \ {x}, f)

(***************************************************************************)
(* RiskLimits, Position, RiskViolation                                     *)
(***************************************************************************)
DefaultLimits ==
    [max_daily_loss          |-> 10000,
     max_position_value      |-> 50000,
     max_total_exposure      |-> 200000,
     max_concentration       |-> <<3, 10>>,
     max_correlated_exposure |-> 100000,
     max_order_velocity      |-> 100,
     position_limit_per_symbol |-> 1000]

\* an engine constructed on its own, PortfolioRiskEngine(RiskLimits(
\* max_order_velocity=1)): the defaults with a small order velocity
TightLimits == [DefaultLimits EXCEPT !.max_order_velocity = 1]

get_correlation_bucket(symbol) ==
    IF symbol \in {"AAPL", "MSFT", "GOOGL", "META", "NVDA"} THEN "tech"
    ELSE IF symbol \in {"JPM", "BAC", "GS", "MS", "WFC"} THEN "finance"
    ELSE IF symbol \in {"XOM", "CVX", "COP", "SLB", "OXY"} THEN "energy"
    ELSE IF symbol \in {"AMZN", "TSLA", "WMT", "HD", "NKE"} THEN "consumer"
    ELSE "other"

Value(pos) == pos.quantity * pos.current_price

TotalValue(ps) == SumOver(DOMAIN ps, [s \in DOMAIN ps |-> Value(ps[s])])

BucketValue(ps, bucket) ==
    LET S == {s \in DOMAIN ps : ps[s].correlation_bucket = bucket}
    IN  SumOver(S, [s \in S |-> Value(ps[s])])

Violation(type, symbol, message, severity) ==
    [violation_type |-> type, symbol |-> symbol,
     message |-> message, severity |-> severity]

\* `last` after a call that returns nothing the claims speak about
NoResult == [outcome |-> None]

NoViolation == [violation_type |-> None]

\* `outcome` before any vote
NoOutcome == [strategy |-> None]

(***************************************************************************)
(* PortfolioRiskEngine.check_order_risk                                    *)
(*                                                                         *)
(* The quantity is the fraction qn/qd (qd >= 1); every projected amount    *)
(* below is the code's amount multiplied by qd, and is compared with the   *)
(* limit multiplied by qd.                                                 *)
(***************************************************************************)
\* variant: a denied order is counted in the bucket of its minute
DeniedCounting(type, symbol, message, severity) ==
    [outcome |-> "denied",
     violation |-> Violation(type, symbol, message, severity),
     order_count |-> [k \in DOMAIN order_count \cup {now} |->
                         IF k \in DOMAIN order_count THEN order_count[k] + 1 ELSE 1],
     order_count_default |-> order_count_default]

Denied(type, symbol, message, severity) ==
    [outcome |-> "denied",
     violation |-> Violation(type, symbol, message, severity),
     order_count |-> order_count, order_count_default |-> order_count_default]

Allowed(oc, ocd) ==
    [outcome |-> "allowed", violation |-> NoViolation,
     order_count |-> oc, order_count_default |-> ocd]

Raised(error) ==
    [outcome |-> "error", violation |-> NoViolation, error |-> error,
     order_count |-> order_count, order_count_default |-> order_count_default]

\* variant: the kill switch is not consulted
KillSwitchIgnored == FALSE

KillSwitchCheck == kill_switch_active

\* variant: the blocked symbols are not consulted
BlockedIgnored(symbol) == FALSE

BlockedCheck(symbol) == symbol \in blocked_symbols

\* variant: a loss equal to the limit already denies
DailyLossAtLimit == daily_pnl <= -risk_limits.max_daily_loss

DailyLossCheck == daily_pnl < -risk_limits.max_daily_loss

CurrentQuantity(symbol) ==
    IF symbol \in DOMAIN positions THEN positions[symbol].quantity ELSE 0

CurrentValue(symbol) ==
    IF symbol \in DOMAIN positions THEN Value(positions[symbol]) ELSE 0

\* new_quantity * qd
NewQuantity(symbol, action, qn, qd) ==
    IF action = "BUY" THEN CurrentQuantity(symbol) * qd + qn
    ELSE CurrentQuantity(symbol) * qd - qn

\* new_value * qd
NewValue(symbol, action, qn, qd, price) ==
    IF action = "BUY" THEN NewQuantity(symbol, action, qn, qd) * price
    ELSE Abs(NewQuantity(symbol, action, qn, qd) * price)

PositionLimitCheck(new_value, qd) ==
    new_value > risk_limits.max_position_value * qd

\* new_total * qd
NewTotal(symbol, new_value, qd) ==
    TotalValue(positions) * qd + (new_value - CurrentValue(symbol) * qd)

ExposureCheck(new_total, qd) ==
    new_total > risk_limits.max_total_exposure * qd

ConcentrationGuard == TotalValue(positions) > 0

\* new_value / new_total > max_concentration, for new_total # 0
ConcentrationCheck(new_value, new_total) ==
    LET cn == risk_limits.max_concentration[1]
        cd == risk_limits.max_concentration[2]
    IN  IF new_total > 0 THEN new_value * cd > cn * new_total
        ELSE new_value * cd < cn * new_total

\* new_bucket_exposure * qd
NewBucketExposure(symbol, new_value, qd) ==
    BucketValue(positions, get_correlation_bucket(symbol)) * qd
        + (new_value - CurrentValue(symbol) * qd)

CorrelationCheck(new_bucket, qd) ==
    new_bucket > risk_limits.max_correlated_exposure * qd

\* self.order_count[current_minute] += 1 on a plain dict without the key
VelocityKeyError == now \notin DOMAIN order_count /\ ~order_count_default

\* the window after the increment and the pruning of lines 284-288
VelocityWindow ==
    LET c == IF now \in DOMAIN order_count THEN order_count[now] ELSE 0
        bumped == [k \in DOMAIN order_count \cup {now} |->
                      IF k = now THEN c + 1 ELSE order_count[k]]
        kept == {k \in DOMAIN bumped : k > now - 2}
    IN  [k \in kept |-> bumped[k]]

VelocityCheck(window) == window[now] > risk_limits.max_order_velocity

VelocityStep(symbol) ==
    IF VelocityKeyError THEN Raised("KeyError")
    ELSE IF VelocityCheck(VelocityWindow)
         THEN [Denied("velocity_limit", symbol, "Order velocity exceeds limit", "warning")
                 EXCEPT !.order_count = VelocityWindow, !.order_count_default = FALSE]
         ELSE Allowed(VelocityWindow, FALSE)

\* variant: total exposure is checked before the position value
ExposureBeforePosition(symbol, action, qn, qd, price) ==
    LET new_value  == NewValue(symbol, action, qn, qd, price)
        new_total  == NewTotal(symbol, new_value, qd)
        new_bucket == NewBucketExposure(symbol, new_value, qd)
    IN  IF ExposureCheck(new_total, qd)
        THEN Denied("exposure_limit", symbol, "Total exposure would exceed limit", "warning")
        ELSE IF PositionLimitCheck(new_value, qd)
        THEN Denied("position_limit", symbol, "Position value exceeds limit", "warning")
        ELSE IF ConcentrationGuard /\ new_total = 0
        THEN Raised("ZeroDivisionError")
        ELSE IF ConcentrationGuard /\ ConcentrationCheck(new_value, new_total)
        THEN Denied("concentration_risk", symbol, "Position concentration exceeds limit", "warning")
        ELSE IF CorrelationCheck(new_bucket, qd)
        THEN Denied("correlation_limit", symbol, "Correlated exposure exceeds limit", "warning")
        ELSE VelocityStep(symbol)

ProjectedChecks(symbol, action, qn, qd, price) ==
    LET new_value  == NewValue(symbol, action, qn, qd, price)
        new_total  == NewTotal(symbol, new_value, qd)
        new_bucket == NewBucketExposure(symbol, new_value, qd)
    IN  IF PositionLimitCheck(new_value, qd)
        THEN Denied("position_limit", symbol, "Position value exceeds limit", "warning")
        ELSE IF ExposureCheck(new_total, qd)
        THEN Denied("exposure_limit", symbol, "Total exposure would exceed limit", "warning")
        ELSE IF ConcentrationGuard /\ new_total = 0
        THEN Raised("ZeroDivisionError")
        ELSE IF ConcentrationGuard /\ ConcentrationCheck(new_value, new_total)
        THEN Denied("concentration_risk", symbol, "Position concentration exceeds limit", "warning")
        ELSE IF CorrelationCheck(new_bucket, qd)
        THEN Denied("correlation_limit", symbol, "Correlated exposure exceeds limit", "warning")
        ELSE VelocityStep(symbol)

\* variant: an action other than BUY and SELL returns before any check
HoldBeforeChecks(symbol, action, qn, qd, price) ==
    IF action \notin {"BUY", "SELL"}
    THEN Allowed(order_count, order_count_default)
    ELSE IF KillSwitchCheck
    THEN Denied("exposure_limit", symbol, "Kill switch is active - all trading halted", "emergency")
    ELSE IF BlockedCheck(symbol)
    THEN Denied("position_limit", symbol, "Symbol is blocked", "critical")
    ELSE IF DailyLossCheck
    THEN Denied("max_daily_loss", symbol, "Daily loss limit exceeded", "critical")
    ELSE ProjectedChecks(symbol, action, qn, qd, price)

check_order_risk(symbol, action, qn, qd, price) ==
    IF KillSwitchCheck
    THEN Denied("exposure_limit", symbol, "Kill switch is active - all trading halted", "emergency")
    ELSE IF BlockedCheck(symbol)
    THEN Denied("position_limit", symbol, "Symbol is blocked", "critical")
    ELSE IF DailyLossCheck
    THEN Denied("max_daily_loss", symbol, "Daily loss limit exceeded", "critical")
    ELSE IF action \notin {"BUY", "SELL"}
    THEN Allowed(order_count, order_count_default)
    ELSE ProjectedChecks(symbol, action, qn, qd, price)

(***************************************************************************)
(* Engine operations.                                                      *)
(***************************************************************************)
\* what a caller of check_order_risk sees: (allowed, violation) or the error
Returned(r) ==
    [outcome |-> r.outcome,
     violation_type |-> r.violation.violation_type,
     severity |-> IF r.outcome = "denied" THEN r.violation.severity ELSE None,
     message |-> IF r.outcome = "denied" THEN r.violation.message
                 ELSE IF r.outcome = "error" THEN r.error ELSE None]

\* variant: the day's starting value is not subtracted
ExposureWithoutBaseline(ps) == TotalValue(ps)

\* _update_exposure_metrics, for the positions ps
ExposureMetrics(ps) == TotalValue(ps) - daily_start_value

NewPosition(symbol, quantity_change, price) ==
    [quantity |-> quantity_change, average_price |-> <<price, 1>>,
     current_price |-> price,
     correlation_bucket |-> get_correlation_bucket(symbol)]

\* variant: the average is recomputed on every trade
AveragedOnEveryTrade(position, quantity_change, price) ==
    LET new_quantity == position.quantity + quantity_change
    IN  [position EXCEPT
            !.average_price =
                Frac(position.quantity * @[1] + quantity_change * price * @[2],
                     @[2] * new_quantity),
            !.quantity = new_quantity,
            !.current_price = price]

\* lines 118-132: the position after a trade on a held symbol (new_quantity # 0)
TradedPosition(position, quantity_change, price) ==
    LET new_quantity == position.quantity + quantity_change
        an == position.average_price[1]
        ad == position.average_price[2]
    IN  [position EXCEPT
            !.average_price =
                IF quantity_change > 0
                THEN Frac(position.quantity * an + quantity_change * price * ad,
                          ad * new_quantity)
                ELSE @,
            !.quantity = new_quantity,
            !.current_price = price]

PositionsAfterTrade(symbol, quantity_change, price) ==
    IF symbol \notin DOMAIN positions
    THEN [s \in DOMAIN positions \cup {symbol} |->
            IF s = symbol THEN NewPosition(symbol, quantity_change, price)
            ELSE positions[s]]
    ELSE IF positions[symbol].quantity + quantity_change = 0
    THEN [s \in DOMAIN positions \ {symbol} |-> positions[s]]
    ELSE [positions EXCEPT ![symbol] = TradedPosition(@, quantity_change, price)]

UpdatePosition(symbol, quantity_change, price) ==
    /\ Abs(CurrentQuantity(symbol) + quantity_change) <= MaxShares
    /\ positions' = PositionsAfterTrade(symbol, quantity_change, price)
    /\ daily_pnl' = ExposureMetrics(positions')
    /\ last' = NoResult
    /\ UNCHANGED <<risk_limits, daily_start_value, order_count, order_count_default,
                   violations, kill_switch_active, blocked_symbols, now, serviceVars>>

\* _check_risk_limits: the violations one sweep finds, for the pnl and positions given
SweepViolations(pnl, ps) ==
    (IF pnl < -risk_limits.max_daily_loss
     THEN <<Violation("max_daily_loss", None, "Daily loss exceeds limit", "critical")>>
     ELSE <<>>)
    \o
    (IF TotalValue(ps) > risk_limits.max_total_exposure
     THEN <<Violation("exposure_limit", None, "Total exposure exceeds limit", "critical")>>
     ELSE <<>>)

CriticalCount(vs) == Cardinality({i \in 1..Len(vs) : vs[i].severity = "critical"})

\* variant: one critical violation is enough to stop
SweepEscalatesOnOne(vs) == CriticalCount(vs) >= 1

SweepEscalates(vs) == CriticalCount(vs) >= 2

EmergencyViolation(reason) ==
    Violation("exposure_limit", None, "Emergency stop: " \o reason, "emergency")

UpdateMarketPrices(prices) ==
    LET ps  == [s \in DOMAIN positions |->
                  IF s \in DOMAIN prices
                  THEN [positions[s] EXCEPT !.current_price = prices[s]]
                  ELSE positions[s]]
        pnl == ExposureMetrics(ps)
        found == SweepViolations(pnl, ps)
        stop == SweepEscalates(found)
        added == IF stop
                 THEN found \o <<EmergencyViolation("Multiple critical risk violations")>>
                 ELSE found
    IN  /\ Len(violations) + Len(added) <= MaxViolations
        /\ positions' = ps
        /\ daily_pnl' = pnl
        /\ violations' = violations \o added
        /\ kill_switch_active' = IF stop THEN TRUE ELSE kill_switch_active
        /\ last' = NoResult
        /\ UNCHANGED <<risk_limits, daily_start_value, order_count,
                       order_count_default, blocked_symbols, now, serviceVars>>

\* variant: a second call releases the kill switch
EmergencyStopToggling(reason) ==
    /\ Len(violations) < MaxViolations
    /\ kill_switch_active' = ~kill_switch_active
    /\ violations' = Append(violations, EmergencyViolation(reason))
    /\ last' = NoResult
    /\ UNCHANGED <<risk_limits, positions, daily_pnl, daily_start_value, order_count,
                   order_count_default, blocked_symbols, now, serviceVars>>

emergency_stop(reason) ==
    /\ kill_switch_active' = TRUE
    /\ violations' = Append(violations, EmergencyViolation(reason))
    /\ last' = NoResult
    /\ UNCHANGED <<risk_limits, positions, daily_pnl, daily_start_value, order_count,
                   order_count_default, blocked_symbols, now, serviceVars>>

\* one more violation of the MaxViolations the model follows
EmergencyStop(reason) == Len(violations) < MaxViolations /\ emergency_stop(reason)

\* "recent_violations" of get_risk_summary: self.violations[-10:]
RecentLimit == 10

recent_violations(vs) ==
    IF Len(vs) <= RecentLimit THEN vs ELSE SubSeq(vs, Len(vs) - RecentLimit + 1, Len(vs))

\* variant: the daily reset also releases the kill switch
ResetReleasingKillSwitch ==
    /\ daily_start_value' = TotalValue(positions)
    /\ daily_pnl' = 0
    /\ order_count' = <<>>
    /\ kill_switch_active' = FALSE
    /\ last' = NoResult
    /\ UNCHANGED <<risk_limits, positions, order_count_default, violations,
                   blocked_symbols, now, serviceVars>>

\* variant: the daily reset also unblocks every symbol
ResetUnblocking ==
    /\ daily_start_value' = TotalValue(positions)
    /\ daily_pnl' = 0
    /\ order_count' = <<>>
    /\ blocked_symbols' = {}
    /\ last' = NoResult
    /\ UNCHANGED <<risk_limits, positions, order_count_default, violations,
                   kill_switch_active, now, serviceVars>>

ResetDailyCounters ==
    /\ daily_start_value' = TotalValue(positions)
    /\ daily_pnl' = 0
    /\ order_count' = <<>>
    /\ last' = NoResult
    /\ UNCHANGED <<risk_limits, positions, order_count_default, violations,
                   kill_switch_active, blocked_symbols, now, serviceVars>>

\* a direct call of check_order_risk, with an integer quantity
CheckOrderRisk(symbol, action, quantity, price) ==
    LET r == check_order_risk(symbol, action, quantity, 1, price)
    IN  /\ \A k \in DOMAIN r.order_count : r.order_count[k] <= MaxOrders
        /\ order_count' = r.order_count
        /\ order_count_default' = r.order_count_default
        /\ last' = Returned(r)
        /\ UNCHANGED <<risk_limits, positions, daily_pnl, daily_start_value,
                       violations, kill_switch_active, blocked_symbols, now, serviceVars>>

(***************************************************************************)
(* Fills booked one after the other by update_position.                    *)
(***************************************************************************)
FillSymbols == {"AAPL", "MSFT"}
FillQtys == {10, -5, -15, 0}
FillPrices == {100, 180, 200}

Fill(symbol, quantity_change, price) ==
    [symbol |-> symbol, quantity_change |-> quantity_change, price |-> price]

BookFill(symbol, quantity_change, price) ==
    /\ Len(trades) < MaxTrades
    /\ UpdatePosition(symbol, quantity_change, price)
    /\ trades' = Append(trades, Fill(symbol, quantity_change, price))
    /\ UNCHANGED <<controls, ballot, outcome, calls, deliveries>>

(***************************************************************************)
(* Control plane operations on the engine (app.py, /risk/...).             *)
(***************************************************************************)
UpdatedLimits(max_daily_loss, max_position_value, max_total_exposure, max_concentration) ==
    [risk_limits EXCEPT
        !.max_daily_loss = IF max_daily_loss # <<>> THEN max_daily_loss[1] ELSE @,
        !.max_position_value = IF max_position_value # <<>> THEN max_position_value[1] ELSE @,
        !.max_total_exposure = IF max_total_exposure # <<>> THEN max_total_exposure[1] ELSE @,
        !.max_concentration = IF max_concentration # <<>> THEN max_concentration[1] ELSE @]

UpdateRiskLimits(max_daily_loss, max_position_value, max_total_exposure, max_concentration) ==
    /\ risk_limits' = UpdatedLimits(max_daily_loss, max_position_value,
                                    max_total_exposure, max_concentration)
    /\ last' = NoResult
    /\ UNCHANGED <<positions, daily_pnl, daily_start_value, order_count,
                   order_count_default, violations, kill_switch_active,
                   blocked_symbols, now, serviceVars>>

BlockSymbol(symbol) ==
    /\ blocked_symbols' = blocked_symbols \cup {symbol}
    /\ last' = NoResult
    /\ UNCHANGED <<risk_limits, positions, daily_pnl, daily_start_value, order_count,
                   order_count_default, violations, kill_switch_active, now, serviceVars>>

UnblockSymbol(symbol) ==
    /\ blocked_symbols' = blocked_symbols \ {symbol}
    /\ last' = NoResult
    /\ UNCHANGED <<risk_limits, positions, daily_pnl, daily_start_value, order_count,
                   order_count_default, violations, kill_switch_active, now, serviceVars>>

\* the wall clock passes into the next UTC minute
Tick ==
    /\ now < MaxMinute
    /\ now' = now + 1
    /\ last' = NoResult
    /\ UNCHANGED <<engineVars, serviceVars>>

(***************************************************************************)
(* AgentDecision and MetaDecision.  A confidence is given in hundredths    *)
(* (90 is 0.9); the weights of a vote are sums of these, and the ratios    *)
(* the code computes from them do not depend on the unit.  sid is the      *)
(* delivery number of the message, which tells two deliveries of the same  *)
(* content apart.                                                          *)
(***************************************************************************)
Decision(agent_id, symbol, action, quantity, confidence, correlation_id) ==
    [agent_id |-> agent_id, symbol |-> symbol, action |-> action,
     quantity |-> quantity, confidence |-> confidence,
     correlation_id |-> correlation_id]

\* the order intents agents send: well-formed ones, and one for each way the
\* fields of a message can be out of range
DecisionInputs ==
    {Decision("a1", "AAPL", "BUY", 1, 90, "c1"),
     Decision("a2", "AAPL", "SELL", 1, 50, "c1"),
     Decision("a3", "AAPL", "BUY", 1200, 80, "c1"),
     Decision("a1", "AAPL", "BUY", 1, 90, "c2"),
     Decision("a3", "AAPL", "SELL", 1, -50, "c1"),
     Decision("a3", "AAPL", "SHORT", 1, 50, "c1"),
     Decision("a2", "XYZ", "SELL", 1, 50, "c1"),
     Decision("a3", "AAPL", "SELL", -1, 50, "c1"),
     Decision("a3", "AAPL", "BUY", 1, 50, ""),
     Decision("a3", "", "BUY", 1, 50, "c1")}

BufferSymbols == {d.symbol : d \in DecisionInputs}

VotingStrategies == {"majority", "weighted", "unanimous", "confidence_weighted"}

Delivered(d, sid) ==
    [agent_id |-> d.agent_id, symbol |-> d.symbol, action |-> d.action,
     quantity |-> d.quantity, confidence |-> d.confidence,
     correlation_id |-> d.correlation_id, sid |-> sid]

MetaDecision(symbol, action, quantity, confidence, agents, method, correlation_id) ==
    [symbol |-> symbol, action |-> action, quantity |-> quantity,
     confidence |-> confidence, participating_agents |-> agents,
     consensus_method |-> method, correlation_id |-> correlation_id,
     override_applied |-> None]

NoDecision == [action |-> None]

(***************************************************************************)
(* The voting functions.  A dict keeps its keys in insertion order and     *)
(* max() returns the first key of maximal weight in that order.            *)
(***************************************************************************)
Indices(decisions, action) ==
    {i \in 1..Len(decisions) : decisions[i].action = action}

FirstIndex(decisions, action) ==
    CHOOSE i \in Indices(decisions, action) :
        \A j \in Indices(decisions, action) : i <= j

ActionsOf(decisions) == {decisions[i].action : i \in 1..Len(decisions)}

\* max(keys, key=weight) over the keys in order of first appearance
MaxKey(decisions, weight) ==
    CHOOSE a \in ActionsOf(decisions) :
        \A b \in ActionsOf(decisions) :
            \/ weight[a] > weight[b]
            \/ weight[a] = weight[b]
               /\ FirstIndex(decisions, a) <= FirstIndex(decisions, b)

\* variant: every agent of the round is listed
EveryAgent(decisions, action) ==
    [i \in 1..Len(decisions) |-> decisions[i].agent_id]

AgentsOf(decisions, action) ==
    LET chosen == SelectSeq(decisions, LAMBDA d : d.action = action)
    IN  [i \in 1..Len(chosen) |-> chosen[i].agent_id]

ActionWeight(decisions, action) ==
    SumOver(Indices(decisions, action),
            [i \in Indices(decisions, action) |-> decisions[i].confidence])

ActionWeightedQuantity(decisions, action) ==
    SumOver(Indices(decisions, action),
            [i \in Indices(decisions, action) |->
                decisions[i].quantity * decisions[i].confidence])

TotalWeight(decisions) ==
    SumOver(1..Len(decisions), [i \in 1..Len(decisions) |-> decisions[i].confidence])

WeightedConfidence(winning_weight, total_weight) ==
    IF total_weight > 0 THEN Frac(winning_weight, total_weight) ELSE <<0, 1>>

WeightedQuantity(weighted_quantity, winning_weight) ==
    IF winning_weight > 0 THEN Frac(weighted_quantity, winning_weight) ELSE <<0, 1>>

confidence_weighted_vote(decisions) ==
    LET weight == [a \in ActionsOf(decisions) |-> ActionWeight(decisions, a)]
        winning_action == MaxKey(decisions, weight)
    IN  MetaDecision(decisions[1].symbol, winning_action,
            WeightedQuantity(ActionWeightedQuantity(decisions, winning_action),
                             weight[winning_action]),
            WeightedConfidence(weight[winning_action], TotalWeight(decisions)),
            AgentsOf(decisions, winning_action),
            "confidence_weighted", decisions[1].correlation_id)

ActionCount(decisions, action) == Cardinality(Indices(decisions, action))

\* variant: the quantities of all decisions are added up
TotalQuantity(decisions, action) ==
    SumOver(1..Len(decisions), [i \in 1..Len(decisions) |-> decisions[i].quantity])

ActionQuantity(decisions, action) ==
    SumOver(Indices(decisions, action),
            [i \in Indices(decisions, action) |-> decisions[i].quantity])

majority_vote(decisions) ==
    LET count == [a \in ActionsOf(decisions) |-> ActionCount(decisions, a)]
        winning_action == MaxKey(decisions, count)
    IN  MetaDecision(decisions[1].symbol, winning_action,
            Frac(ActionQuantity(decisions, winning_action), count[winning_action]),
            Frac(count[winning_action], Len(decisions)),
            AgentsOf(decisions, winning_action),
            "majority", decisions[1].correlation_id)

weighted_vote(decisions) == majority_vote(decisions)

\* variant: differing actions are put to the majority vote
UnanimousAsMajority(decisions) == majority_vote(decisions)

unanimous_vote(decisions) ==
    IF Cardinality(ActionsOf(decisions)) > 1 THEN NoDecision
    ELSE majority_vote(decisions)

\* what a vote adds to the counter conflicting_decisions: only
\* _confidence_weighted_vote has the call of inc()
conflicting_decisions_inc(strategy, decisions) ==
    IF Len(decisions) < 2 THEN 0
    ELSE IF strategy = "confidence_weighted" /\ Cardinality(ActionsOf(decisions)) > 1
    THEN 1
    ELSE 0

apply_voting_strategy(strategy, decisions) ==
    IF Len(decisions) < 2 THEN NoDecision
    ELSE IF strategy = "confidence_weighted" THEN confidence_weighted_vote(decisions)
    ELSE IF strategy = "majority" THEN majority_vote(decisions)
    ELSE IF strategy = "weighted" THEN weighted_vote(decisions)
    ELSE IF strategy = "unanimous" THEN unanimous_vote(decisions)
    ELSE NoDecision

(***************************************************************************)
(* The voting functions on their own: a list of decisions of one           *)
(* (symbol, correlation_id), as _coordinate_decisions hands it over, and   *)
(* the strategy in force.                                                  *)
(***************************************************************************)
VoteInputs ==
    {Decision("a1", "AAPL", "BUY", 10, 90, "c1"),
     Decision("a2", "AAPL", "BUY", 10, 80, "c1"),
     Decision("a3", "AAPL", "SELL", 5, 95, "c1"),
     Decision("a2", "AAPL", "SELL", 5, 60, "c1"),
     Decision("a3", "AAPL", "SELL", 1200, 90, "c1"),
     Decision("a1", "AAPL", "BUY", 10, 0, "c1"),
     Decision("a2", "AAPL", "SELL", 5, 0, "c1"),
     Decision("a3", "AAPL", "HOLD", 0, 50, "c1"),
     Decision("a3", "AAPL", "SELL", 5, -90, "c1")}

\* one more decision is appended to the list
Cast(d) ==
    /\ Len(ballot) < MaxBallot
    /\ ballot' = Append(ballot, Delivered(d, Len(ballot) + 1))
    /\ outcome' = NoOutcome
    /\ last' = NoResult
    /\ UNCHANGED <<engineVars, serviceVars, controls, trades, calls, deliveries, now>>

\* _apply_voting_strategy(decisions) under self.voting_strategy = strategy
Vote(strategy) ==
    /\ outcome' = [strategy |-> strategy,
                   result |-> apply_voting_strategy(strategy, ballot),
                   conflicting |-> conflicting_decisions_inc(strategy, ballot)]
    /\ last' = NoResult
    /\ UNCHANGED <<engineVars, serviceVars, controls, ballot, trades, calls, deliveries, now>>

(***************************************************************************)
(* MetaAgentService._apply_risk_overrides                                  *)
(***************************************************************************)
Hold(decision, tag) ==
    [decision EXCEPT !.action = "HOLD", !.quantity = <<0, 1>>,
                     !.override_applied = tag]

\* lines 359-364, after the violation was emitted
RiskBlocked(decision, violation) ==
    Hold(decision, "risk_blocked: " \o violation.violation_type)

\* variant: only the engine's kill switch stops the trading
KillSwitchOnly == kill_switch_active

EmergencyOverride == "emergency_stop" \in risk_overrides \/ kill_switch_active

PausedOverride(symbol) ==
    symbol \in paused_strategies \/ symbol \in blocked_symbols

\* lines 383-385
ExceedsLimit(decision) ==
    /\ decision.symbol \in DOMAIN symbol_limits
    /\ decision.quantity[1] > symbol_limits[decision.symbol] * decision.quantity[2]

\* variant: a decision over its cap is held back
PositionHeld(decision) == Hold(decision, "position_limit")

\* lines 386-387
PositionLimited(decision) ==
    [decision EXCEPT !.quantity = <<symbol_limits[decision.symbol], 1>>,
                     !.override_applied = "position_limit"]

\* variant: the pause is looked at before the emergency stop
PausedBeforeEmergency(decision) ==
    IF PausedOverride(decision.symbol) THEN Hold(decision, "symbol_paused")
    ELSE IF EmergencyOverride THEN Hold(decision, "emergency_stop")
    ELSE IF ExceedsLimit(decision) THEN PositionLimited(decision)
    ELSE decision

\* lines 366-390, when the risk engine allowed the order
ManualOverrides(decision) ==
    IF EmergencyOverride THEN Hold(decision, "emergency_stop")
    ELSE IF PausedOverride(decision.symbol) THEN Hold(decision, "symbol_paused")
    ELSE IF ExceedsLimit(decision) THEN PositionLimited(decision)
    ELSE decision

\* _apply_risk_overrides(decision), given what check_order_risk returned
apply_risk_overrides(decision, r) ==
    IF r.outcome = "error" THEN NoDecision
    ELSE IF r.outcome = "denied" THEN RiskBlocked(decision, r.violation)
    ELSE ManualOverrides(decision)

(***************************************************************************)
(* The override pipeline on its own: a voted decision is handed to         *)
(* _apply_risk_overrides under the operator settings of the moment.  The   *)
(* violation event it may emit leaves the process and is not kept here.    *)
(***************************************************************************)
OverrideInputs ==
    {Decision("a1", "AAPL", "BUY", 10, 90, "c1"),
     Decision("a2", "AAPL", "BUY", 5, 80, "c1"),
     Decision("a3", "AAPL", "SELL", 5, 95, "c1"),
     Decision("a3", "AAPL", "SELL", 1200, 90, "c1"),
     Decision("a3", "AAPL", "HOLD", 0, 50, "c1")}

\* symbol_limits as the deployment configured it
SymbolLimits == {<<>>, [s \in {"AAPL"} |-> 7]}

Override ==
    LET meta == outcome.result
        r == check_order_risk(meta.symbol, meta.action, meta.quantity[1],
                              meta.quantity[2], EstimatedPrice)
    IN  /\ outcome.strategy # None
        /\ "final" \notin DOMAIN outcome
        /\ meta # NoDecision
        /\ \A k \in DOMAIN r.order_count : r.order_count[k] <= MaxOrders
        /\ order_count' = r.order_count
        /\ order_count_default' = r.order_count_default
        /\ outcome' = [strategy |-> outcome.strategy, result |-> meta,
                       check |-> Returned(r),
                       final |-> apply_risk_overrides(meta, r)]
        /\ last' = NoResult
        /\ UNCHANGED <<risk_limits, positions, daily_pnl, daily_start_value,
                       violations, kill_switch_active, blocked_symbols,
                       serviceVars, controls, ballot, trades, calls, deliveries, now>>

(***************************************************************************)
(* MetaAgentService._handle_agent_decision, cut at its awaits of I/O:      *)
(* the emission of a violation (risk_engine.py:410) and the publication    *)
(* of the decision (app.py:408).  Everything between two of them runs      *)
(* without interruption on the event loop.                                 *)
(***************************************************************************)
RelevantDecisions(decisions, correlation_id) ==
    SelectSeq(decisions, LAMBDA d : d.correlation_id = correlation_id)

Sids(decisions) == {decisions[i].sid : i \in 1..Len(decisions)}

Handler(id, pc, symbol, correlation_id, decision, violation, inputs) ==
    [id |-> id, pc |-> pc, symbol |-> symbol, correlation_id |-> correlation_id,
     decision |-> decision, violation |-> violation, inputs |-> inputs]

\* a handler that ended: how, the deliveries it voted on, and those its
\* clean-up took out of the buffer
Ended(id, symbol, correlation_id, kind, inputs, violation, removed) ==
    [id |-> id, symbol |-> symbol, correlation_id |-> correlation_id,
     kind |-> kind, inputs |-> inputs,
     violation_type |-> violation.violation_type, removed |-> removed]

\* variant: the clean-up removes nothing
NothingCleanedUp(decisions, correlation_id) == decisions

\* lines 222-225
CleanedUp(decisions, correlation_id) ==
    SelectSeq(decisions, LAMBDA d : d.correlation_id # correlation_id)

\* the message published on decisions.meta, and the handler it came from
PublishedMessage(decision, id) ==
    [symbol |-> decision.symbol, action |-> decision.action,
     quantity |-> decision.quantity, confidence |-> decision.confidence,
     participating_agents |-> decision.participating_agents,
     consensus_method |-> decision.consensus_method,
     correlation_id |-> decision.correlation_id,
     override_applied |-> decision.override_applied,
     source |-> "meta-agent", round |-> id]

handle_agent_decision(d) ==
    LET sid == submitted + 1
        buffered == [agent_decisions EXCEPT ![d.symbol] = Append(@, Delivered(d, sid))]
        relevant == RelevantDecisions(buffered[d.symbol], d.correlation_id)
        meta == apply_voting_strategy(voting_strategy, relevant)
        r == check_order_risk(meta.symbol, meta.action, meta.quantity[1],
                              meta.quantity[2], EstimatedPrice)
    IN  /\ Cardinality(handlers) < MaxInFlight
        /\ submitted' = sid
        /\ agent_decisions' = buffered
        /\ IF Len(relevant) < 2
           THEN /\ last' = NoResult
                /\ UNCHANGED <<order_count, order_count_default, handlers, rounds>>
           ELSE IF meta = NoDecision
           THEN /\ rounds' = Append(rounds, Ended(sid, d.symbol, d.correlation_id,
                                   "no_decision", Sids(relevant), NoViolation, {}))
                /\ last' = NoResult
                /\ UNCHANGED <<order_count, order_count_default, handlers>>
           ELSE /\ last' = NoResult
                /\ order_count' = r.order_count
                /\ order_count_default' = r.order_count_default
                /\ IF r.outcome = "error"
                   THEN /\ rounds' = Append(rounds, Ended(sid, d.symbol, d.correlation_id,
                                           "aborted", Sids(relevant), NoViolation, {}))
                        /\ UNCHANGED handlers
                   ELSE /\ handlers' = handlers \cup
                            {IF r.outcome = "denied"
                             THEN Handler(sid, "emit", d.symbol, d.correlation_id,
                                          meta, r.violation, Sids(relevant))
                             ELSE Handler(sid, "publish", d.symbol, d.correlation_id,
                                          ManualOverrides(meta), NoViolation, Sids(relevant))}
                        /\ UNCHANGED rounds
        /\ UNCHANGED <<risk_limits, positions, daily_pnl, daily_start_value, violations,
                       kill_switch_active, blocked_symbols, voting_strategy,
                       risk_overrides, paused_strategies, symbol_limits, published,
                       emitted, now>>

\* one more of the MaxSubmit deliveries the model follows
HandleAgentDecision(d) == submitted < MaxSubmit /\ handle_agent_decision(d)

\* emit_risk_violation returns: the event was published, or js.publish raised
\* and the error was logged (risk_engine.py:419)
EmitReturns(h, ok) ==
    /\ h \in handlers /\ h.pc = "emit"
    /\ emitted' = IF ok THEN Append(emitted, h.violation) ELSE emitted
    /\ handlers' = (handlers \ {h}) \cup
            {[h EXCEPT !.pc = "publish", !.decision = RiskBlocked(h.decision, h.violation)]}
    /\ last' = NoResult
    /\ UNCHANGED <<engineVars, agent_decisions, voting_strategy, risk_overrides,
                   paused_strategies, symbol_limits, published, submitted, rounds, now>>

\* _publish_meta_decision returns: the decision was published, or js.publish
\* raised and the error was logged (app.py:421); then lines 221-227 and the ack
PublishReturns(h, ok) ==
    /\ h \in handlers /\ h.pc = "publish"
    /\ published' = IF ok THEN Append(published, PublishedMessage(h.decision, h.id))
                    ELSE published
    /\ agent_decisions' = [agent_decisions EXCEPT
                              ![h.symbol] = CleanedUp(@, h.correlation_id)]
    /\ handlers' = handlers \ {h}
    /\ rounds' = Append(rounds,
            Ended(h.id, h.symbol, h.correlation_id,
                  IF ok THEN "published" ELSE "publish_failed",
                  h.inputs, h.violation,
                  Sids(agent_decisions[h.symbol]) \ Sids(agent_decisions'[h.symbol])))
    /\ last' = NoResult
    /\ UNCHANGED <<engineVars, voting_strategy, risk_overrides, paused_strategies,
                   symbol_limits, emitted, submitted, now>>

(***************************************************************************)
(* Control plane operations on the service (app.py, /control/...).         *)
(***************************************************************************)
PauseStrategy(strategy_id) ==
    /\ paused_strategies' = paused_strategies \cup {strategy_id}
    /\ last' = NoResult
    /\ UNCHANGED <<engineVars, agent_decisions, voting_strategy, risk_overrides,
                   symbol_limits, handlers, published, emitted, submitted, rounds, now>>

ResumeStrategy(strategy_id) ==
    /\ paused_strategies' = paused_strategies \ {strategy_id}
    /\ last' = NoResult
    /\ UNCHANGED <<engineVars, agent_decisions, voting_strategy, risk_overrides,
                   symbol_limits, handlers, published, emitted, submitted, rounds, now>>

ControlEmergencyStop ==
    /\ risk_overrides' = risk_overrides \cup {"emergency_stop"}
    /\ last' = NoResult
    /\ UNCHANGED <<engineVars, agent_decisions, voting_strategy, paused_strategies,
                   symbol_limits, handlers, published, emitted, submitted, rounds, now>>

SetVotingStrategy(strategy) ==
    /\ voting_strategy' = strategy
    /\ last' = NoResult
    /\ UNCHANGED <<engineVars, agent_decisions, risk_overrides, paused_strategies,
                   symbol_limits, handlers, published, emitted, submitted, rounds, now>>

(***************************************************************************)
(* Specifications.  Init is the service after construction                 *)
(* (MetaAgentService.__init__, with PortfolioRiskEngine()); InitEngine is  *)
(* an engine constructed on its own with a small order velocity.           *)
(***************************************************************************)
InitConfigured(limits, caps) ==
    /\ risk_limits = limits
    /\ positions = <<>>
    /\ daily_pnl = 0
    /\ daily_start_value = 0
    /\ order_count = <<>>
    /\ order_count_default = TRUE
    /\ violations = <<>>
    /\ kill_switch_active = FALSE
    /\ blocked_symbols = {}
    /\ agent_decisions = [s \in BufferSymbols |-> <<>>]
    /\ voting_strategy = "confidence_weighted"
    /\ risk_overrides = {}
    /\ paused_strategies = {}
    /\ symbol_limits = caps
    /\ handlers = {}
    /\ published = <<>>
    /\ emitted = <<>>
    /\ submitted = 0
    /\ rounds = <<>>
    /\ controls = 0
    /\ ballot = <<>>
    /\ outcome = NoOutcome
    /\ trades = <<>>
    /\ calls = <<>>
    /\ deliveries = <<>>
    /\ now = 0
    /\ last = NoResult

InitWith(limits) == InitConfigured(limits, <<>>)

Init == InitWith(DefaultLimits)

InitEngine == InitWith(TightLimits)

NextEngine ==
    \/ \E s \in Symbols, q \in TradeQtys, p \in TradePrices : UpdatePosition(s, q, p)
    \/ \E S \in (SUBSET Symbols) \ {{}}, p \in MarketPrices :
            UpdateMarketPrices([s \in S |-> p])
    \/ \E s \in CheckSymbols, a \in Actions, q \in CheckQtys, p \in CheckPrices :
            CheckOrderRisk(s, a, q, p)
    \/ \E reason \in Reasons : EmergencyStop(reason)
    \/ ResetDailyCounters
    \/ \E mte \in ExposureInputs :
            UpdateRiskLimits(<<>>, <<>>, mte, <<>>)
    \/ \E s \in BlockSymbols : BlockSymbol(s)
    \/ \E s \in BlockSymbols : UnblockSymbol(s)
    \/ Tick

SpecEngine == InitEngine /\ [][NextEngine /\ UNCHANGED <<controls, harnessVars>>]_vars

(***************************************************************************)
(* JetStream deliveries on decisions.order_intent.  The durable consumer   *)
(* is created with the defaults (app.py:131-136): a message answered with  *)
(* msg.nak() is delivered again, with no limit on the number of          *)
(* deliveries.                                                             *)
(***************************************************************************)
\* messages the handler cannot decode: json.loads, data["agent_id"] or
\* datetime.fromisoformat raises (app.py:164-174)
Malformed(defect) == [malformed |-> defect]

MalformedInputs == {Malformed("not_json"), Malformed("no_agent_id"),
                    Malformed("bad_timestamp")}

DeliveryInputs ==
    {Decision("a1", "AAPL", "BUY", 1, 90, "c1"),
     Decision("a2", "AAPL", "SELL", 1, 50, "c1"),
     Decision("a3", "AAPL", "BUY", 1200, 80, "c1")}

IsMalformed(msg) == "malformed" \in DOMAIN msg

\* a delivery of msg; first is the number of the first delivery of msg
Delivery(msg, first) == [msg |-> msg, first |-> first]

\* _handle_agent_decision on a message it cannot decode: the exception is
\* raised before anything is stored, and answered with msg.nak()
handle_malformed(msg) ==
    /\ submitted' = submitted + 1
    /\ rounds' = Append(rounds, Ended(submitted + 1, None, None, "rejected",
                                      {}, NoViolation, {}))
    /\ last' = NoResult
    /\ UNCHANGED <<engineVars, agent_decisions, voting_strategy, risk_overrides,
                   paused_strategies, symbol_limits, handlers, published,
                   emitted, now>>

Handled(msg) ==
    IF IsMalformed(msg) THEN handle_malformed(msg) ELSE handle_agent_decision(msg)

\* the delivery numbered sid was answered with msg.nak()
NackedIn(ended, sid) ==
    \E i \in 1..Len(ended) :
        ended[i].id = sid /\ ended[i].kind \in {"aborted", "rejected"}

Nacked(sid) == NackedIn(rounds, sid)

Redeliveries == {j \in 1..Len(deliveries) : deliveries[j].first # j}

Deliver(msg) ==
    /\ submitted < MaxSubmit
    /\ Handled(msg)
    /\ deliveries' = Append(deliveries, Delivery(msg, submitted + 1))
    /\ UNCHANGED <<controls, ballot, outcome, trades, calls>>

\* JetStream delivers again the message whose latest delivery was nak'ed
Redeliver(sid) ==
    /\ Cardinality(Redeliveries) < MaxRedeliver
    /\ Nacked(sid)
    /\ \A j \in 1..Len(deliveries) :
           deliveries[j].first = deliveries[sid].first => j <= sid
    /\ Handled(deliveries[sid].msg)
    /\ deliveries' = Append(deliveries,
                            Delivery(deliveries[sid].msg, deliveries[sid].first))
    /\ UNCHANGED <<controls, ballot, outcome, trades, calls>>

NextDelivery ==
    \/ \E msg \in DeliveryInputs \cup MalformedInputs : Deliver(msg)
    \/ \E sid \in 1..Len(deliveries) : Redeliver(sid)
    \/ \E h \in handlers, ok \in BOOLEAN :
            EmitReturns(h, ok) /\ UNCHANGED <<controls, harnessVars>>
    \/ \E h \in handlers, ok \in BOOLEAN :
            PublishReturns(h, ok) /\ UNCHANGED <<controls, harnessVars>>
    \/ Tick /\ UNCHANGED <<controls, harnessVars>>

SpecDelivery == Init /\ [][NextDelivery]_vars

(***************************************************************************)
(* Four deliveries: enough for a round, a second round of the same         *)
(* correlation id started while the first is suspended, and a decision     *)
(* that arrives after the first of them cleaned the buffer.                *)
(***************************************************************************)
LoneInputs ==
    {Decision("a1", "AAPL", "BUY", 1, 90, "c1"),
     Decision("a2", "AAPL", "SELL", 1, 50, "c1"),
     Decision("a3", "AAPL", "BUY", 1200, 80, "c1"),
     Decision("a1", "AAPL", "BUY", 1, 90, "c2"),
     Decision("a2", "XYZ", "SELL", 1, 50, "c1")}

NextLone ==
    \/ \E d \in LoneInputs : submitted < MaxLone /\ handle_agent_decision(d)
    \/ \E h \in handlers, ok \in BOOLEAN : EmitReturns(h, ok)
    \/ \E h \in handlers, ok \in BOOLEAN : PublishReturns(h, ok)
    \/ Tick

SpecLone == Init /\ [][NextLone /\ UNCHANGED <<controls, harnessVars>>]_vars

\* one more call of a control endpoint, of the MaxControl the model follows
Budgeted == controls < MaxControl /\ controls' = controls + 1

NextService ==
    \/ \E d \in DecisionInputs : HandleAgentDecision(d) /\ UNCHANGED controls
    \/ \E h \in handlers, ok \in BOOLEAN : EmitReturns(h, ok) /\ UNCHANGED controls
    \/ \E h \in handlers, ok \in BOOLEAN : PublishReturns(h, ok) /\ UNCHANGED controls
    \/ \E st \in VotingStrategies : Budgeted /\ SetVotingStrategy(st)
    \/ \E id \in PauseIds : Budgeted /\ PauseStrategy(id)
    \/ \E id \in PauseIds : Budgeted /\ ResumeStrategy(id)
    \/ Budgeted /\ ControlEmergencyStop
    \/ \E s \in BlockSymbols : Budgeted /\ BlockSymbol(s)
    \/ \E s \in BlockSymbols : Budgeted /\ UnblockSymbol(s)
    \/ \E mpv \in PositionValueInputs :
            Budgeted /\ UpdateRiskLimits(<<>>, mpv, <<>>, <<>>)
    \/ Budgeted /\ ResetDailyCounters
    \/ Tick /\ UNCHANGED controls

SpecService == Init /\ [][NextService /\ UNCHANGED harnessVars]_vars

NextVoting ==
    \/ \E d \in VoteInputs : Cast(d)
    \/ \E st \in VotingStrategies : Vote(st)

SpecVoting == Init /\ [][NextVoting]_vars

NextPositions ==
    \E symbol \in FillSymbols, quantity_change \in FillQtys, price \in FillPrices :
        BookFill(symbol, quantity_change, price)

SpecPositions == Init /\ [][NextPositions]_vars

(***************************************************************************)
(* The operations of the engine called one after the other, each call      *)
(* noted with its arguments.                                               *)
(***************************************************************************)
StopReasons == {"manual", "breach"}
HeldQtys == {1000, -1000}
QuotedPrices == {50, 90, 100}
OrderActions == {"BUY", "SELL"}

Call(op, args) == [op |-> op, args |-> args]

Called(op, args) ==
    /\ Len(calls) < MaxCalls
    /\ calls' = Append(calls, Call(op, args))
    /\ UNCHANGED <<controls, ballot, outcome, trades, deliveries>>

NextOperations ==
    \/ \E s \in Symbols, q \in HeldQtys, p \in TradePrices :
            UpdatePosition(s, q, p) /\ Called("update_position", <<s, q, p>>)
    \/ \E p \in QuotedPrices :
            UpdateMarketPrices([s \in Symbols |-> p])
                /\ Called("update_market_prices", <<p>>)
    \/ ResetDailyCounters /\ Called("reset_daily_counters", <<>>)
    \/ \E reason \in StopReasons :
            EmergencyStop(reason) /\ Called("emergency_stop", <<reason>>)
    \/ \E mte \in ExposureInputs :
            UpdateRiskLimits(<<>>, <<>>, mte, <<>>) /\ Called("update_risk_limits", mte)
    \/ \E s \in BlockSymbols : BlockSymbol(s) /\ Called("block_symbol", <<s>>)
    \/ \E s \in Symbols, a \in Actions :
            CheckOrderRisk(s, a, 1, EstimatedPrice)
                /\ Called("check_order_risk", <<s, a, 1, EstimatedPrice>>)

SpecOperations == Init /\ [][NextOperations]_vars

(***************************************************************************)
(* The violation history over many calls: emergency stops for two reasons  *)
(* and sweeps of a position that is marked up and down.                    *)
(***************************************************************************)
NextHistory ==
    \/ \E reason \in StopReasons :
            Len(violations) < MaxHistory /\ emergency_stop(reason)
    \/ \E s \in Symbols, q \in HeldQtys, p \in TradePrices :
            positions = <<>> /\ UpdatePosition(s, q, p)
    \/ \E p \in QuotedPrices : UpdateMarketPrices([s \in Symbols |-> p])

SpecHistory == Init /\ [][NextHistory /\ UNCHANGED <<controls, harnessVars>>]_vars

\* an operator setting changed: what was voted before is voted again
Reconfigured == outcome' = NoOutcome /\ UNCHANGED <<controls, ballot, trades, calls, deliveries>>

InitOverrides == \E caps \in SymbolLimits : InitConfigured(DefaultLimits, caps)

NextOverrides ==
    \/ \E d \in OverrideInputs : Cast(d)
    \/ \E st \in VotingStrategies : Vote(st)
    \/ Override
    \/ ControlEmergencyStop /\ Reconfigured
    \/ \E id \in PauseIds : PauseStrategy(id) /\ Reconfigured
    \/ \E id \in PauseIds : ResumeStrategy(id) /\ Reconfigured
    \/ \E s \in BlockSymbols : BlockSymbol(s) /\ Reconfigured
    \/ \E s \in BlockSymbols : UnblockSymbol(s) /\ Reconfigured
    \/ \E reason \in Reasons : EmergencyStop(reason) /\ Reconfigured

SpecOverrides == InitOverrides /\ [][NextOverrides]_vars

(***************************************************************************)
(* Properties of the risk engine (SpecEngine).                             *)
(***************************************************************************)
EscalationMessage == "Emergency stop: Multiple critical risk violations"

KillSwitchMessage == "Kill switch is active - all trading halted"

\* C1: once kill_switch_active is true, every operation of the engine and
\* every control-plane call leaves it true; nothing sets it back to false.
C1_KillSwitchStaysOn == [][kill_switch_active => kill_switch_active']_vars

\* the switch was set by the sweep escalation, and a daily reset and a
\* check_order_risk have run since
C1_Witness ==
    /\ kill_switch_active
    /\ \E i \in 1..Len(violations) : violations[i].message = EscalationMessage
    /\ daily_pnl = 0
    /\ daily_start_value = TotalValue(positions)
    /\ last.outcome = "denied"

\* C2: while kill_switch_active is true, check_order_risk denies every order
\* (every symbol, BUY, SELL and HOLD, every quantity and price) with a
\* violation of severity "emergency".
C2_KillSwitchDeniesAll ==
    kill_switch_active =>
        \A s \in CheckSymbols, a \in Actions, q \in CheckQtys, p \in CheckPrices :
            LET r == check_order_risk(s, a, q, 1, p)
            IN  r.outcome = "denied" /\ r.violation.severity = "emergency"

\* a check returned the kill-switch denial in a state where the symbol is
\* blocked and the daily loss limit is broken as well
C2_Witness ==
    /\ kill_switch_active
    /\ last.outcome = "denied" /\ last.severity = "emergency"
    /\ blocked_symbols # {}
    /\ DailyLossCheck

\* the checks of check_order_risk in the order of the specification: whether
\* each one fails for the order, and the message of its violation
ChecksFailing(symbol, action, quantity, price) ==
    LET order == action \in {"BUY", "SELL"}
        new_value  == NewValue(symbol, action, quantity, 1, price)
        new_total  == NewTotal(symbol, new_value, 1)
        new_bucket == NewBucketExposure(symbol, new_value, 1)
    IN  <<kill_switch_active,
          symbol \in blocked_symbols,
          daily_pnl < -risk_limits.max_daily_loss,
          order /\ new_value > risk_limits.max_position_value,
          order /\ new_total > risk_limits.max_total_exposure,
          order /\ TotalValue(positions) > 0 /\ new_total # 0
                /\ ConcentrationCheck(new_value, new_total),
          order /\ new_bucket > risk_limits.max_correlated_exposure,
          order /\ VelocityWindow[now] > risk_limits.max_order_velocity>>

CheckMessages ==
    <<KillSwitchMessage, "Symbol is blocked", "Daily loss limit exceeded",
      "Position value exceeds limit", "Total exposure would exceed limit",
      "Position concentration exceeds limit", "Correlated exposure exceeds limit",
      "Order velocity exceeds limit">>

FailingSet(fails) == {i \in 1..Len(fails) : fails[i]}

FirstFailing(fails) ==
    CHOOSE i \in FailingSet(fails) : \A j \in FailingSet(fails) : i <= j

C9_HoldAlwaysAllowed ==
    \A s \in CheckSymbols, q \in CheckQtys, p \in CheckPrices :
        check_order_risk(s, "HOLD", q, 1, p).outcome = "allowed"

\* C9, amended: HOLD goes through the kill-switch, blocked-symbol and
\* daily-loss checks and is denied by the first of them that fails; when
\* none fails it is allowed with no violation, whatever the positions and
\* limits, and the velocity counter is not touched.
C9_HoldAllowedAfterThreeChecks ==
    \A s \in CheckSymbols, q \in CheckQtys, p \in CheckPrices :
        LET r == check_order_risk(s, "HOLD", q, 1, p)
        IN  IF kill_switch_active \/ s \in blocked_symbols
               \/ daily_pnl < -risk_limits.max_daily_loss
            THEN r.outcome = "denied"
            ELSE /\ r.outcome = "allowed"
                 /\ r.violation = NoViolation
                 /\ r.order_count = order_count
                 /\ r.order_count_default = order_count_default

\* a HOLD was allowed (no BUY or SELL ever got as far as the velocity check)
\* in a state where a BUY of any size would be denied
C9_Witness ==
    /\ last.outcome = "allowed"
    /\ order_count_default
    /\ positions # <<>>
    /\ \A s \in CheckSymbols, q \in CheckQtys, p \in CheckPrices :
          check_order_risk(s, "BUY", q, 1, p).outcome = "denied"

(***************************************************************************)
(* Properties of the decision coordinator (SpecService).                   *)
(***************************************************************************)
CorrelationIds == {d.correlation_id : d \in DecisionInputs}

\* the handlers that got a coordinated decision out of the vote and the
\* risk check: those suspended at an await, and those that ended after
\* the publication was attempted
Coordinated == {"published", "publish_failed"}

Triggered ==
    {[id |-> h.id, inputs |-> h.inputs] : h \in handlers}
    \cup {[id |-> rounds[i].id, inputs |-> rounds[i].inputs] :
            i \in {j \in 1..Len(rounds) : rounds[j].kind \in Coordinated}}

Buffered == UNION {Sids(agent_decisions[s]) : s \in BufferSymbols}

\* C3 as stated: every round whose voted decision the risk engine denied
\* ends with exactly one published decision of that round, with action HOLD,
\* quantity 0 and the risk_blocked tag of the violation (spelled as the code
\* spells it, "risk_blocked: <type>").
C3_DeniedRoundPublishesHold ==
    \A i \in 1..Len(rounds) :
        rounds[i].violation_type # None =>
            Cardinality({j \in 1..Len(published) :
                /\ published[j].round = rounds[i].id
                /\ published[j].correlation_id = rounds[i].correlation_id
                /\ published[j].action = "HOLD"
                /\ published[j].quantity = <<0, 1>>
                /\ published[j].override_applied =
                      "risk_blocked: " \o rounds[i].violation_type}) = 1

C5_NoDoubleTrigger ==
    \A r1, r2 \in Triggered :
        r1.id # r2.id => r1.inputs \cap r2.inputs = {}

\* C6 as stated: the clean-up of a round removes from the buffer exactly
\* the decisions the round voted on.
C6_RemovesExactlyVoted ==
    \A i \in 1..Len(rounds) :
        rounds[i].kind \in Coordinated => rounds[i].removed = rounds[i].inputs

\* the validation the specification asks for at submission
IsValidDecision(d) ==
    /\ d.symbol # ""
    /\ d.correlation_id # ""
    /\ d.action \in {"BUY", "SELL", "HOLD"}
    /\ d.confidence >= 0 /\ d.confidence <= 100
    /\ d.quantity >= 0

\* C7 as stated: a decision with an empty symbol or correlation_id, an
\* action outside BUY/SELL/HOLD, a confidence outside [0,1] or a negative
\* quantity is never in the decision buffer.
C7_InvalidNeverBuffered ==
    \A s \in BufferSymbols :
        \A i \in 1..Len(agent_decisions[s]) : IsValidDecision(agent_decisions[s][i])

InUnitInterval(fraction) ==
    0 <= fraction[1] /\ fraction[1] <= fraction[2]

\* C10 as stated: the confidence of every decision a vote produced, and of
\* every decision published, lies in [0,1].
C10_ConfidenceInUnitInterval ==
    /\ \A h \in handlers : InUnitInterval(h.decision.confidence)
    /\ \A j \in 1..Len(published) : InUnitInterval(published[j].confidence)

(***************************************************************************)
(* The voting functions (SpecVoting)                                       *)
(***************************************************************************)
Voted == outcome.strategy # None /\ outcome.result # NoDecision

Choosing(action) == {i \in 1..Len(ballot) : ballot[i].action = action}

Listed(agents) == {agents[k] : k \in 1..Len(agents)}

\* C11: under every strategy participating_agents lists exactly the agents
\* whose decision chose the winning action: one entry per such decision,
\* every such agent, and nobody whose decisions all chose another action.
C11_ParticipantsChoseWinner ==
    Voted =>
        LET winner == outcome.result.action
            agents == outcome.result.participating_agents
        IN  /\ Len(agents) = Cardinality(Choosing(winner))
            /\ \A i \in Choosing(winner) : ballot[i].agent_id \in Listed(agents)
            /\ \A k \in 1..Len(agents) :
                   \E i \in Choosing(winner) : ballot[i].agent_id = agents[k]

C11_Witness ==
    /\ Voted
    /\ Cardinality(ActionsOf(ballot)) > 1
    /\ Len(outcome.result.participating_agents) = 2
    /\ \E i \in 1..Len(ballot) :
           ballot[i].agent_id \notin Listed(outcome.result.participating_agents)

HasVotes(votes) ==
    /\ Len(ballot) = Len(votes)
    /\ \A i \in 1..Len(votes) :
           /\ ballot[i].action = votes[i][1]
           /\ ballot[i].confidence = votes[i][2]
           /\ ballot[i].quantity = votes[i][3]

Agents(decisions) == {decisions[i].agent_id : i \in 1..Len(decisions)}

QuantitySum(indices) == SumOver(indices, [i \in indices |-> ballot[i].quantity])

\* C12: under Majority the winner is an action chosen by the most
\* decisions, confidence = winner_count / number of decisions and quantity
\* = mean quantity of the decisions choosing the winner; (BUY,0.9),
\* (BUY,0.8), (SELL,0.95) of three agents give BUY, 2/3, two agents.
C12_MajorityResult ==
    (Voted /\ outcome.strategy = "majority") =>
        LET r == outcome.result
            n == Cardinality(Choosing(r.action))
        IN  /\ \A a \in Actions \cup ActionsOf(ballot) : Cardinality(Choosing(a)) <= n
            /\ r.confidence[1] * Len(ballot) = n * r.confidence[2]
            /\ r.quantity[1] * n = QuantitySum(Choosing(r.action)) * r.quantity[2]
            /\ (HasVotes(<<<<"BUY", 90, 10>>, <<"BUY", 80, 10>>, <<"SELL", 95, 5>>>>)
                /\ Cardinality(Agents(ballot)) = 3)
               => /\ r.action = "BUY"
                  /\ r.confidence = <<2, 3>>
                  /\ Len(r.participating_agents) = 2

C12_Witness ==
    /\ Voted /\ outcome.strategy = "majority"
    /\ HasVotes(<<<<"BUY", 90, 10>>, <<"BUY", 80, 10>>, <<"SELL", 95, 5>>>>)
    /\ Cardinality(Agents(ballot)) = 3
    /\ outcome.result.confidence = <<2, 3>>

ConfidenceSum(indices) == SumOver(indices, [i \in indices |-> ballot[i].confidence])

WeightedSum(indices) ==
    SumOver(indices, [i \in indices |-> ballot[i].quantity * ballot[i].confidence])

\* C13 as stated: under Confidence-weighted the winner is an action of
\* highest summed confidence, confidence = winner weight / total weight
\* (0 when the total is 0) and quantity = sum(qty x confidence) /
\* sum(confidence) over the winning decisions (0 when the total is 0);
\* (BUY,0.9,10), (SELL,0.6,5) give BUY, 0.6, 10.
C13_WeightedResult ==
    (Voted /\ outcome.strategy = "confidence_weighted") =>
        LET r == outcome.result
            w == ConfidenceSum(Choosing(r.action))
            total == ConfidenceSum(1..Len(ballot))
        IN  /\ \A a \in ActionsOf(ballot) : ConfidenceSum(Choosing(a)) <= w
            /\ IF total = 0
               THEN r.confidence[1] = 0 /\ r.quantity[1] = 0
               ELSE /\ r.confidence[1] * total = w * r.confidence[2]
                    /\ r.quantity[1] * w = WeightedSum(Choosing(r.action)) * r.quantity[2]
            /\ HasVotes(<<<<"BUY", 90, 10>>, <<"SELL", 60, 5>>>>)
               => r.action = "BUY" /\ r.confidence = <<3, 5>> /\ r.quantity = <<10, 1>>

\* the same over decisions whose confidences are all in [0,1]
C13_WeightedResultOfValidVotes ==
    (\A i \in 1..Len(ballot) : ballot[i].confidence >= 0) => C13_WeightedResult

C13_Witness ==
    /\ Voted /\ outcome.strategy = "confidence_weighted"
    /\ HasVotes(<<<<"BUY", 90, 10>>, <<"SELL", 60, 5>>>>)
    /\ outcome.result.confidence = <<3, 5>>

C13_WitnessZeroWeight ==
    /\ Voted /\ outcome.strategy = "confidence_weighted"
    /\ \A i \in 1..Len(ballot) : ballot[i].confidence = 0
    /\ outcome.result.confidence = <<0, 1>>

\* C14: under Unanimous two or more decisions with more than one distinct
\* action produce no decision; decisions that all choose one action produce
\* the Majority result for it, with confidence 1.
C14_UnanimousResult ==
    (outcome.strategy = "unanimous" /\ Len(ballot) >= 2) =>
        IF Cardinality(ActionsOf(ballot)) > 1
        THEN outcome.result = NoDecision
        ELSE /\ outcome.result = apply_voting_strategy("majority", ballot)
             /\ outcome.result.action \in ActionsOf(ballot)
             /\ outcome.result.confidence = <<1, 1>>

C14_Witness ==
    /\ Voted /\ outcome.strategy = "unanimous"
    /\ Len(ballot) = 3
    /\ outcome.result.action = "SELL"
    /\ outcome.result.confidence = <<1, 1>>

C14_WitnessMixed ==
    /\ outcome.strategy = "unanimous"
    /\ Len(ballot) >= 2
    /\ Cardinality(ActionsOf(ballot)) > 1
    /\ outcome.result = NoDecision

\* the arrival orders of the same decisions
Orders(decisions) ==
    LET n == Len(decisions)
        shuffles == {f \in [1..n -> 1..n] : \A i, j \in 1..n : f[i] = f[j] => i = j}
    IN  {[i \in 1..n |-> decisions[f[i]]] : f \in shuffles}

SameResult(r1, r2) ==
    IF r1 = NoDecision \/ r2 = NoDecision THEN r1 = r2
    ELSE /\ r1.action = r2.action
         /\ r1.confidence = r2.confidence
         /\ r1.quantity = r2.quantity
         /\ Listed(r1.participating_agents) = Listed(r2.participating_agents)

\* C15 as stated: under every strategy the result (action, confidence,
\* quantity, set of participating agents) is the same for every arrival
\* order of the same decisions, ties for the highest count or weight
\* included.
C15_OrderIndependent ==
    outcome.strategy # None =>
        \A other \in Orders(ballot) :
            SameResult(apply_voting_strategy(outcome.strategy, other), outcome.result)

\* without a tie for the highest count or weight the order does not matter
C15_OrderIndependentWithoutTie ==
    outcome.strategy # None =>
        LET weight(a) == IF outcome.strategy = "confidence_weighted"
                         THEN ConfidenceSum(Choosing(a))
                         ELSE Cardinality(Choosing(a))
            tied == \E a, b \in ActionsOf(ballot) :
                        /\ a # b
                        /\ weight(a) = weight(b)
                        /\ \A c \in ActionsOf(ballot) : weight(c) <= weight(a)
        IN  tied \/ C15_OrderIndependent

(***************************************************************************)
(* The override pipeline (SpecOverrides, SpecService)                      *)
(***************************************************************************)
Overridden ==
    /\ outcome.strategy # None
    /\ "final" \in DOMAIN outcome
    /\ outcome.final # NoDecision

RiskDenied == outcome.check.outcome = "denied"

ManualFlag == "emergency_stop" \in risk_overrides

PausedOrBlocked ==
    \/ outcome.result.symbol \in paused_strategies
    \/ outcome.result.symbol \in blocked_symbols

HasCap == outcome.result.symbol \in DOMAIN symbol_limits

OverCap ==
    /\ HasCap
    /\ outcome.result.quantity[1] >
           symbol_limits[outcome.result.symbol] * outcome.result.quantity[2]

IsHeld(decision) == decision.action = "HOLD" /\ decision.quantity = <<0, 1>>

C16_WitnessDenied ==
    /\ Overridden
    /\ RiskDenied /\ ManualFlag /\ PausedOrBlocked /\ OverCap
    /\ ~kill_switch_active
    /\ outcome.final.override_applied = "risk_blocked: position_limit"

\* C18: when the risk engine allowed the order, no emergency stop is in
\* force, the symbol is neither paused nor blocked and it has a cap, the
\* decision keeps the voted action, its quantity is min(voted quantity,
\* cap), and it is tagged position_limit exactly when the voted quantity
\* exceeded the cap, untagged otherwise.
C18_CappedQuantity ==
    (Overridden /\ ~RiskDenied /\ ~ManualFlag /\ ~PausedOrBlocked /\ HasCap) =>
        LET voted == outcome.result
            final == outcome.final
            cap == symbol_limits[voted.symbol]
        IN  /\ final.action = voted.action
            /\ final.quantity = IF voted.quantity[1] > cap * voted.quantity[2]
                                THEN <<cap, 1>> ELSE voted.quantity
            /\ final.override_applied = "position_limit" <=> OverCap
            /\ ~OverCap => final.override_applied = None

C18_Witness ==
    /\ Overridden /\ ~RiskDenied /\ ~ManualFlag /\ ~PausedOrBlocked /\ HasCap
    /\ outcome.result.quantity = <<15, 2>>
    /\ outcome.final.quantity = <<7, 1>>
    /\ outcome.final.action = "BUY"
    /\ outcome.final.override_applied = "position_limit"

C18_WitnessWithinCap ==
    /\ Overridden /\ ~RiskDenied /\ ~ManualFlag /\ ~PausedOrBlocked /\ HasCap
    /\ outcome.result.action = "SELL"
    /\ outcome.final.quantity = <<5, 1>>
    /\ outcome.final.override_applied = None

\* C17: once the control plane's emergency_stop has set the manual flag,
\* the flag stays set, every decision that leaves the override pipeline
\* from then on is HOLD with quantity 0, whatever was voted and whatever
\* the limits and the other settings are, and what is published is the
\* decision the pipeline left.
C17_StoppedRoundsHold ==
    [][ManualFlag =>
          /\ ManualFlag'
          /\ \A h \in handlers' \ handlers : h.pc = "publish" => IsHeld(h.decision)
          /\ Len(published') > Len(published) =>
                 \E h \in handlers :
                     /\ h.pc = "publish"
                     /\ IsHeld(h.decision)
                        => /\ published'[Len(published')].action = "HOLD"
                           /\ published'[Len(published')].quantity = <<0, 1>>
                     /\ published'[Len(published')] = PublishedMessage(h.decision, h.id)]_vars

C17_Witness ==
    /\ ManualFlag
    /\ ~kill_switch_active
    /\ \E j \in 1..Len(published) :
           /\ published[j].action = "HOLD"
           /\ published[j].quantity = <<0, 1>>
           /\ published[j].override_applied = "emergency_stop"

(***************************************************************************)
(* Positions (SpecPositions)                                               *)
(***************************************************************************)
Booked == Len(trades') = Len(trades) + 1

LastFill == trades'[Len(trades')]

ExampleFills ==
    <<Fill("AAPL", 10, 100), Fill("AAPL", 10, 200), Fill("AAPL", -15, 180)>>

\* C19: a buy on a held position (quantity q, average a) gives quantity
\* q + change and average (q x a + change x p) / (q + change); a first
\* fill gives average p; a sell reduces the quantity and leaves the average
\* as it was; BUY 10@100, BUY 10@200 give 20 at 150 and SELL 15@180 then
\* gives 5 at 150.  (A position whose quantity reaches 0 is removed.)
C19_AveragePrice ==
    [][Booked =>
          LET s == LastFill.symbol
              change == LastFill.quantity_change
              p == LastFill.price
              held == s \in DOMAIN positions
              kept == s \in DOMAIN positions'
          IN  /\ ~held => /\ kept
                          /\ positions'[s].quantity = change
                          /\ positions'[s].average_price = <<p, 1>>
              /\ (held /\ ~kept) => positions[s].quantity + change = 0
              /\ (held /\ kept) =>
                    LET q == positions[s].quantity
                        a == positions[s].average_price
                        b == positions'[s].average_price
                    IN  /\ positions'[s].quantity = q + change
                        /\ q + change # 0
                        /\ change > 0 =>
                               b[1] * a[2] * (q + change) =
                                   (q * a[1] + change * p * a[2]) * b[2]
                        /\ change < 0 =>
                               /\ b = a
                               /\ positions'[s].quantity < q
              /\ trades' = SubSeq(ExampleFills, 1, 2) =>
                     /\ positions'["AAPL"].quantity = 20
                     /\ positions'["AAPL"].average_price = <<150, 1>>
              /\ trades' = ExampleFills =>
                     /\ positions'["AAPL"].quantity = 5
                     /\ positions'["AAPL"].average_price = <<150, 1>>]_vars

C19_Witness ==
    /\ trades = ExampleFills
    /\ positions["AAPL"].quantity = 5
    /\ positions["AAPL"].average_price = <<150, 1>>

\* C20 as stated: a sell at price p on a position of average a adds
\* exactly (p - a) x closed quantity to daily_pnl (450 for SELL 15@180 after
\* BUY 10@100 and BUY 10@200), so a sell at p = a leaves daily_pnl as it
\* was.
C20_SellRealizesPnl ==
    [][(Booked /\ LastFill.quantity_change < 0 /\ LastFill.symbol \in DOMAIN positions) =>
          LET a == positions[LastFill.symbol].average_price
              closed == -LastFill.quantity_change
          IN  (daily_pnl' - daily_pnl) * a[2] = (LastFill.price * a[2] - a[1]) * closed]_vars

\* what update_position does to daily_pnl instead: it becomes the value of
\* all positions at their current prices minus the day's starting value
C20_DailyPnlIsMarkedValue ==
    daily_pnl = TotalValue(positions) - daily_start_value

C20_ExampleDailyPnl ==
    trades = ExampleFills => daily_pnl = 900

\* C21 as stated: after any sequence of update_position calls no position
\* in the map has quantity 0.
C21_NoZeroPosition ==
    \A s \in DOMAIN positions : positions[s].quantity # 0

\* a position whose quantity reaches 0 through a fill is removed
C21_ClosedPositionRemoved ==
    [][Booked =>
          LET s == LastFill.symbol
          IN  (s \in DOMAIN positions /\ positions[s].quantity + LastFill.quantity_change = 0)
              => s \notin DOMAIN positions']_vars

(***************************************************************************)
(* Operations of the engine (SpecOperations)                               *)
(***************************************************************************)
Ran(op) == Len(calls') = Len(calls) + 1 /\ calls'[Len(calls')].op = op

LastCall == calls[Len(calls)]

MarkedValue(ps) ==
    SumOver(DOMAIN ps, [s \in DOMAIN ps |-> ps[s].quantity * ps[s].current_price])

\* C22: reset_daily_counters sets daily_pnl to 0 and the daily baseline to
\* the current total position value, and leaves kill_switch_active,
\* blocked_symbols, positions, the risk limits and the violation history
\* as they were.
C22_ResetKeepsSafetyState ==
    [][Ran("reset_daily_counters") =>
          /\ daily_pnl' = 0
          /\ daily_start_value' = MarkedValue(positions)
          /\ kill_switch_active' = kill_switch_active
          /\ blocked_symbols' = blocked_symbols
          /\ positions' = positions
          /\ risk_limits' = risk_limits
          /\ violations' = violations]_vars

C22_Witness ==
    /\ calls # <<>>
    /\ LastCall.op = "reset_daily_counters"
    /\ kill_switch_active
    /\ "AAPL" \in blocked_symbols
    /\ "AAPL" \in DOMAIN positions
    /\ violations # <<>>
    /\ daily_start_value = 100000
    /\ daily_pnl = 0

\* C23: update_market_prices switches the kill switch on exactly when,
\* with the refreshed prices, daily_pnl < -max_daily_loss and the total
\* exposure > max_total_exposure both hold (two critical violations in the
\* one sweep); with none or one of them kill_switch_active stays as it was.
\* No order check takes part.
C23_SweepEscalation ==
    [][Ran("update_market_prices") =>
          LET loss == daily_pnl' < -risk_limits.max_daily_loss
              exposed == MarkedValue(positions') > risk_limits.max_total_exposure
          IN  IF loss /\ exposed
              THEN kill_switch_active'
              ELSE kill_switch_active' = kill_switch_active]_vars

C23_Witness ==
    /\ calls # <<>>
    /\ LastCall.op = "update_market_prices"
    /\ \A i \in 1..Len(calls) : calls[i].op # "emergency_stop"
    /\ kill_switch_active
    /\ daily_pnl < -risk_limits.max_daily_loss
    /\ MarkedValue(positions) > risk_limits.max_total_exposure

C23_WitnessOneCritical ==
    /\ calls # <<>>
    /\ LastCall.op = "update_market_prices"
    /\ ~kill_switch_active
    /\ daily_pnl < -risk_limits.max_daily_loss
    /\ violations # <<>>

StoppedBefore == \E i \in 1..Len(calls) : calls[i].op = "emergency_stop"

\* C24 as stated: a second emergency_stop, with any reason, leaves the
\* engine in the state the first call left.
C24_SecondStopChangesNothing ==
    [][(Ran("emergency_stop") /\ StoppedBefore) => UNCHANGED engineVars]_vars

\* C24: a second emergency_stop, with any reason, leaves the kill switch
\* on and changes nothing in the engine but the violation history, which
\* gains one emergency violation naming the reason of that call.
C24_SecondStopOnlyRecorded ==
    [][(Ran("emergency_stop") /\ StoppedBefore) =>
          /\ kill_switch_active /\ kill_switch_active'
          /\ UNCHANGED <<risk_limits, positions, daily_pnl, daily_start_value,
                         order_count, order_count_default, blocked_symbols>>
          /\ Len(violations') = Len(violations) + 1
          /\ SubSeq(violations', 1, Len(violations)) = violations
          /\ violations'[Len(violations')].severity = "emergency"
          /\ violations'[Len(violations')].message =
                 "Emergency stop: " \o calls'[Len(calls')].args[1]]_vars

C24_Witness ==
    /\ Len(calls) = 2
    /\ calls[1] = Call("emergency_stop", <<"manual">>)
    /\ calls[2] = Call("emergency_stop", <<"breach">>)
    /\ kill_switch_active
    /\ Len(violations) = 2

\* C25: with the kill switch off and the symbol not blocked, a BUY or SELL
\* is denied with a critical violation of type max_daily_loss whenever
\* daily_pnl < -max_daily_loss, and is not denied for the daily loss when
\* daily_pnl >= -max_daily_loss.
C25_DailyLossRule ==
    ~kill_switch_active =>
        \A s \in CheckSymbols \ blocked_symbols, a \in OrderActions,
           q \in CheckQtys, p \in CheckPrices :
            LET r == check_order_risk(s, a, q, 1, p)
            IN  IF daily_pnl < -risk_limits.max_daily_loss
                THEN /\ r.outcome = "denied"
                     /\ r.violation.violation_type = "max_daily_loss"
                     /\ r.violation.severity = "critical"
                ELSE r.outcome = "denied" =>
                         r.violation.violation_type # "max_daily_loss"

C25_Witness ==
    /\ calls # <<>>
    /\ LastCall.op = "check_order_risk"
    /\ ~kill_switch_active
    /\ blocked_symbols = {}
    /\ daily_pnl < -risk_limits.max_daily_loss
    /\ last.outcome = "denied"
    /\ last.violation_type = "max_daily_loss"
    /\ last.severity = "critical"

C25_WitnessAtLimit ==
    /\ calls # <<>>
    /\ LastCall.op = "check_order_risk"
    /\ daily_pnl = -risk_limits.max_daily_loss
    /\ last.outcome # None
    /\ last.violation_type # "max_daily_loss"

(***************************************************************************)
(* Order checks (SpecEngine)                                               *)
(***************************************************************************)
\* C26 as stated, for check_order_risk: no call faults on an arithmetic
\* edge case; in particular a SELL that brings the projected total
\* exposure to zero returns a result.
C26_NoArithmeticFault ==
    /\ last.outcome = "error" => last.message # "ZeroDivisionError"
    /\ \A s \in CheckSymbols, a \in OrderActions, q \in CheckQtys, p \in CheckPrices :
           NewTotal(s, NewValue(s, a, q, 1, p), 1) = 0
               => check_order_risk(s, a, q, 1, p).outcome # "error"

\* with nothing held the projected total is never divided by, whatever the
\* order is
C26_NoFaultOnEmptyPortfolio ==
    positions = <<>> =>
        \A s \in CheckSymbols, a \in OrderActions, q \in CheckQtys, p \in CheckPrices :
            LET r == check_order_risk(s, a, q, 1, p)
            IN  r.outcome = "error" => r.error # "ZeroDivisionError"

(***************************************************************************)
(* Control plane and order checks in the service (SpecService)             *)
(***************************************************************************)
\* the handlers whose vote and risk check ran in this step
Checked == {h \in handlers' \ handlers : submitted' # submitted /\ h.id = submitted'}

VotedFor(h) ==
    apply_voting_strategy(voting_strategy,
        RelevantDecisions(agent_decisions'[h.symbol], h.correlation_id))

DeniedWith(h, message) == h.pc = "emit" /\ h.violation.message = message

\* C27: a check made after block_symbol(S) returned, and before
\* unblock_symbol(S) did, denies an order for S with a critical violation,
\* and a check made after a limit update returned compares with the
\* updated limit, whatever other handlers are in flight: each check sees
\* the blocked symbols and the limits as the latest returned call left them.
C27_MutationsVisible ==
    [][\A h \in Checked :
          LET voted == VotedFor(h)
              value == NewValue(h.symbol, voted.action, voted.quantity[1],
                                voted.quantity[2], EstimatedPrice)
          IN  IF h.symbol \in blocked_symbols
              THEN /\ DeniedWith(h, "Symbol is blocked")
                   /\ h.violation.severity = "critical"
              ELSE /\ ~DeniedWith(h, "Symbol is blocked")
                   /\ voted.action \in OrderActions =>
                          (DeniedWith(h, "Position value exceeds limit")
                           <=> value > risk_limits.max_position_value * voted.quantity[2])]_vars

C27_Witness ==
    /\ "AAPL" \in blocked_symbols
    /\ \E h \in handlers : DeniedWith(h, "Symbol is blocked")
    /\ \E h \in handlers :
           /\ h.pc = "publish"
           /\ h.decision.action = "BUY"
           /\ h.decision.override_applied = None

C27_WitnessLimit ==
    /\ risk_limits.max_position_value = 50
    /\ \E h \in handlers :
           /\ DeniedWith(h, "Position value exceeds limit")
           /\ h.decision.quantity = <<1, 1>>
    /\ \E h \in handlers :
           /\ h.pc = "publish"
           /\ h.decision.action = "BUY"
           /\ h.decision.override_applied = None

\* the handlers whose publication returned in this step
Returning == {h \in handlers : h.pc = "publish" /\ h \notin handlers'
                               /\ \A g \in handlers' : g.id # h.id}

\* the round of A = BUY 1 at 0.9 and B = SELL 1 at 0.5, delivered in this
\* order and alone, with no control call made
RoundOfAB(h) ==
    LET relevant == RelevantDecisions(agent_decisions[h.symbol], h.correlation_id)
    IN  /\ submitted = 2 /\ controls = 0
        /\ h.inputs = {1, 2}
        /\ Len(relevant) = 2
        /\ relevant[1].action = "BUY" /\ relevant[1].quantity = 1
        /\ relevant[1].confidence = 90
        /\ relevant[2].action = "SELL" /\ relevant[2].quantity = 1
        /\ relevant[2].confidence = 50

IsMessage(m, action, quantity, confidence, tag) ==
    /\ m.action = action /\ m.quantity = quantity
    /\ m.confidence = confidence /\ m.override_applied = tag

\* C28 as stated: with default limits, nothing held and no override, the
\* round of A = BUY 1 at 0.9 and B = SELL 1 at 0.5 under Confidence-weighted
\* publishes exactly one decision: BUY, confidence 0.9/1.4, quantity 1, no
\* override.
C28_EndToEnd ==
    [][\A h \in Returning :
          RoundOfAB(h) =>
              /\ published = <<>>
              /\ Len(published') = 1
              /\ IsMessage(published'[1], "BUY", <<1, 1>>, <<9, 14>>, None)]_vars

\* the same when js.publish succeeds; and in every round, a decision no
\* override touched carries the voted action and quantity
C28_EndToEndUnlessPublishFails ==
    [][\A h \in Returning :
          /\ (RoundOfAB(h) /\ Len(published') > Len(published)) =>
                 /\ published = <<>>
                 /\ Len(published') = 1
                 /\ IsMessage(published'[1], "BUY", <<1, 1>>, <<9, 14>>, None)
          /\ RoundOfAB(h) => IsMessage(h.decision, "BUY", <<1, 1>>, <<9, 14>>, None)
          /\ (h.decision.override_applied = None
              /\ Len(published') > Len(published)
              /\ controls = 0
              /\ Sids(RelevantDecisions(agent_decisions[h.symbol], h.correlation_id))
                     = h.inputs) =>
                 LET voted == apply_voting_strategy(voting_strategy,
                                  RelevantDecisions(agent_decisions[h.symbol],
                                                    h.correlation_id))
                     m == published'[Len(published')]
                 IN  m.action = voted.action /\ m.quantity = voted.quantity]_vars

C28_WitnessPublished ==
    /\ submitted = 2 /\ controls = 0 /\ handlers = {}
    /\ Len(published) = 1
    /\ IsMessage(published[1], "BUY", <<1, 1>>, <<9, 14>>, None)

C28_WitnessLost ==
    /\ submitted = 2 /\ controls = 0 /\ handlers = {}
    /\ published = <<>>
    /\ Len(rounds) = 1
    /\ rounds[1].kind = "publish_failed"

(***************************************************************************)
(* Concentration and order velocity (SpecEngine)                           *)
(***************************************************************************)
\* projected symbol value / projected total exposure > max_concentration
OverConcentrated(s, a, q, p) ==
    LET new_value == NewValue(s, a, q, 1, p)
        new_total == NewTotal(s, new_value, 1)
    IN  /\ new_total > 0
        /\ new_value * risk_limits.max_concentration[2]
               > risk_limits.max_concentration[1] * new_total

\* C29 as stated: every BUY or SELL that check_order_risk allows has a
\* projected concentration of at most max_concentration, in every portfolio
\* state, the empty portfolio included.
C29_AllowedWithinConcentration ==
    \A s \in CheckSymbols, a \in OrderActions, q \in CheckQtys, p \in CheckPrices :
        OverConcentrated(s, a, q, p) => check_order_risk(s, a, q, 1, p).outcome # "allowed"

\* the same holds as long as something is held before the order
C29_WithinConcentrationWhenHolding ==
    TotalValue(positions) > 0 =>
        \A s \in CheckSymbols, a \in OrderActions, q \in CheckQtys, p \in CheckPrices :
            OverConcentrated(s, a, q, p) =>
                check_order_risk(s, a, q, 1, p).outcome # "allowed"

\* an order for a symbol not held was denied for its concentration
C29_WitnessHolding ==
    /\ TotalValue(positions) > 0
    /\ last.outcome = "denied"
    /\ last.violation_type = "concentration_risk"

\* the count of the current minute bucket before a check
BucketCount == IF now \in DOMAIN order_count THEN order_count[now] ELSE 0

\* no check before the velocity check denies the order
ReachesVelocity(s, a, q, p) ==
    /\ \A i \in FailingSet(ChecksFailing(s, a, q, p)) : i = Len(CheckMessages)
    /\ ~(ConcentrationGuard /\ NewTotal(s, NewValue(s, a, q, 1, p), 1) = 0)

WithinTwoMinutes(window) == \A k \in DOMAIN window : k > now - 2

\* C30 as stated: an allowed BUY or SELL leaves the count of its minute
\* bucket at most max_order_velocity; an order that finds the bucket full is
\* denied with a velocity_limit warning; and after every check the velocity
\* window holds only buckets of the last 2 minutes.
C30_VelocityWindowed ==
    \A s \in CheckSymbols, a \in OrderActions, q \in CheckQtys, p \in CheckPrices :
        LET r == check_order_risk(s, a, q, 1, p)
        IN  /\ r.outcome = "allowed" =>
                   /\ now \in DOMAIN r.order_count
                   /\ r.order_count[now] <= risk_limits.max_order_velocity
            /\ (ReachesVelocity(s, a, q, p)
                /\ BucketCount >= risk_limits.max_order_velocity) =>
                   /\ r.outcome = "denied"
                   /\ r.violation.violation_type = "velocity_limit"
                   /\ r.violation.severity = "warning"
            /\ WithinTwoMinutes(r.order_count)

\* the same, the window being pruned only by a check that gets as far as
\* the velocity check and returns
C30_VelocityWhenCounted ==
    /\ order_count_default => order_count = <<>>
    /\ \A s \in CheckSymbols, a \in OrderActions, q \in CheckQtys, p \in CheckPrices :
        LET r == check_order_risk(s, a, q, 1, p)
        IN  /\ r.outcome = "allowed" =>
                   /\ now \in DOMAIN r.order_count
                   /\ r.order_count[now] = BucketCount + 1
                   /\ r.order_count[now] <= risk_limits.max_order_velocity
            /\ (ReachesVelocity(s, a, q, p)
                /\ BucketCount >= risk_limits.max_order_velocity) =>
                   /\ r.outcome = "denied"
                   /\ r.violation.violation_type = "velocity_limit"
                   /\ r.violation.severity = "warning"
                   /\ r.order_count[now] = BucketCount + 1
            /\ (r.outcome = "allowed" \/ r.order_count # order_count) =>
                   WithinTwoMinutes(r.order_count)

\* within one minute the count of its bucket only grows while the bucket is
\* in the window
C30_BucketOnlyGrows ==
    [][(now' = now /\ now \in DOMAIN order_count /\ now \in DOMAIN order_count')
           => order_count'[now] >= order_count[now]]_vars

\* an order was denied for its velocity in a minute that already had an
\* allowed one
C30_WitnessDenied ==
    /\ last.outcome = "denied" /\ last.violation_type = "velocity_limit"
    /\ order_count[now] > risk_limits.max_order_velocity

\* a check raised two minutes after the last counted one and left the old
\* bucket in the window
C30_WitnessStale ==
    /\ last.outcome = "error"
    /\ ~WithinTwoMinutes(order_count)

(***************************************************************************)
(* The counter of conflicting decisions (SpecVoting)                       *)
(***************************************************************************)
Conflicting == Cardinality(ActionsOf(ballot)) > 1

\* C31 as stated: a vote over two or more decisions adds one to the counter
\* of conflicting decisions exactly when the decisions hold more than one
\* distinct action, under each of the four strategies and whether or not
\* the vote gives a decision.
C31_ConflictsCounted ==
    (outcome.strategy # None /\ Len(ballot) >= 2) =>
        (outcome.conflicting = 1 <=> Conflicting)

\* the counter is added to by the confidence-weighted vote only, and there
\* exactly when the actions differ
C31_ConflictsCountedWhenWeighted ==
    (outcome.strategy # None /\ Len(ballot) >= 2) =>
        (outcome.conflicting = 1
            <=> (Conflicting /\ outcome.strategy = "confidence_weighted"))

C31_WitnessCounted ==
    /\ outcome.strategy = "confidence_weighted"
    /\ Len(ballot) >= 2 /\ outcome.conflicting = 1

C31_WitnessNotCounted ==
    /\ outcome.strategy = "unanimous"
    /\ Len(ballot) >= 2 /\ Conflicting
    /\ outcome.result = NoDecision /\ outcome.conflicting = 0

(***************************************************************************)
(* Deliveries, negative acknowledgements and redeliveries (SpecDelivery)   *)
(***************************************************************************)
\* C32 as stated: a malformed decision message is handled exactly once; it
\* is never delivered to the handler again after it was rejected.
C32_MalformedHandledOnce ==
    \A j \in Redeliveries : ~IsMalformed(deliveries[j].msg)

\* a malformed message is rejected without touching the buffer or
\* publishing anything, each time it is delivered
C32_MalformedLeavesNoTrace ==
    [][(Len(deliveries') > Len(deliveries)
        /\ IsMalformed(deliveries'[Len(deliveries')].msg)) =>
            /\ NackedIn(rounds', Len(deliveries'))
            /\ UNCHANGED <<agent_decisions, handlers, published, emitted>>]_vars

\* a malformed message was rejected, delivered again and rejected again
C32_WitnessRedelivered ==
    \E j \in Redeliveries :
        /\ IsMalformed(deliveries[j].msg)
        /\ Nacked(j) /\ Nacked(deliveries[j].first)

(***************************************************************************)
(* Emission of risk violations (SpecService)                               *)
(***************************************************************************)
\* the handlers whose call of emit_risk_violation returned in this step
Emitting == {h \in handlers : h.pc = "emit" /\ h \notin handlers'}

PublishedOf(messages, id) == {j \in 1..Len(messages) : messages[j].round = id}

\* C33 as stated: when check_order_risk denies a voted decision, its
\* violation is on the violations topic when emit_risk_violation returns,
\* before the HOLD decision of the round is published; no emission is lost.
C33_ViolationEmittedFirst ==
    [][\A h \in Emitting :
          /\ emitted' = Append(emitted, h.violation)
          /\ PublishedOf(published', h.id) = {}]_vars

\* the emission is attempted before the publication, and a violation that
\* was accepted by the topic is the one check_order_risk returned
C33_EmissionAttemptedFirst ==
    [][\A h \in Emitting :
          /\ emitted' \in {emitted, Append(emitted, h.violation)}
          /\ PublishedOf(published', h.id) = {}
          /\ \E g \in handlers' :
                /\ g.id = h.id /\ g.pc = "publish"
                /\ IsHeld(g.decision)
                /\ g.decision.override_applied
                       = "risk_blocked: " \o h.violation.violation_type]_vars

\* a denied round published its HOLD decision and nothing reached the
\* violations topic
C33_WitnessLost ==
    /\ emitted = <<>>
    /\ \E i \in 1..Len(rounds) :
          /\ rounds[i].violation_type # None
          /\ rounds[i].kind = "published"
          /\ PublishedOf(published, rounds[i].id) # {}

C33_WitnessEmitted ==
    /\ Len(emitted) = 1
    /\ \E i \in 1..Len(rounds) :
          /\ rounds[i].violation_type = emitted[1].violation_type
          /\ rounds[i].kind = "published"

(***************************************************************************)
(* The violation history (SpecHistory)                                     *)
(***************************************************************************)
\* C34 as stated: the violation history the engine keeps is bounded, by the
\* 10 entries get_risk_summary reports, whatever the number of sweeps and
\* emergency stops; and get_risk_summary reports at most the 10 most recent.
C34_HistoryBounded ==
    /\ Len(violations) <= RecentLimit
    /\ Len(recent_violations(violations)) <= RecentLimit

\* the summary is bounded and holds the most recent entries, but the
\* history only ever grows: no operation drops an entry
C34_SummaryBoundedHistoryGrows ==
    [][/\ Len(recent_violations(violations')) <= RecentLimit
       /\ \A k \in 1..Len(recent_violations(violations')) :
              recent_violations(violations')[k]
                  = violations'[Len(violations')
                                - Len(recent_violations(violations')) + k]
       /\ Len(violations') >= Len(violations)
       /\ SubSeq(violations', 1, Len(violations)) = violations]_vars

\* the history holds more entries than the summary reports
C34_WitnessLong ==
    /\ Len(violations) > RecentLimit
    /\ Len(recent_violations(violations)) = RecentLimit
    /\ recent_violations(violations)[1] = violations[Len(violations) - RecentLimit + 1]

(***************************************************************************)
(* A decision alone in the buffer (SpecLone)                               *)
(***************************************************************************)
\* the buffered decisions that are the only ones of their (symbol,
\* correlation id)
Lone ==
    {e \in UNION {{agent_decisions[s][i] : i \in 1..Len(agent_decisions[s])}
                     : s \in BufferSymbols} :
        Len(RelevantDecisions(agent_decisions[e.symbol], e.correlation_id)) = 1}

\* the handlers and ended rounds of this step that voted on delivery sid
VotingOn(sid) ==
    \/ \E h \in handlers' \ handlers : sid \in h.inputs /\ h.id = submitted'
    \/ /\ Len(rounds') > Len(rounds)
       /\ rounds'[Len(rounds')].id = submitted'
       /\ sid \in rounds'[Len(rounds')].inputs

\* C35 as stated: a decision that is alone in the buffer for its (symbol,
\* correlation id) stays there and is not voted on in any step that is
\* not the handling of a later decision of the same (symbol, correlation
\* id), whatever else is delivered and however much time passes.
C35_LoneDecisionWaits ==
    [][\A e \in Lone :
          /\ e.sid \in Sids(agent_decisions'[e.symbol])
          /\ VotingOn(e.sid) =>
                 /\ submitted' = submitted + 1
                 /\ Len(RelevantDecisions(agent_decisions'[e.symbol],
                                          e.correlation_id)) >= 2]_vars

\* the same as long as no handler of the decision's (symbol, correlation
\* id) is suspended when the decision is alone
C35_LoneDecisionWaitsUnlessOverlap ==
    [][\A e \in Lone :
          (\A h \in handlers :
               ~(h.symbol = e.symbol /\ h.correlation_id = e.correlation_id)) =>
              /\ e.sid \in Sids(agent_decisions'[e.symbol])
              /\ VotingOn(e.sid) =>
                     /\ submitted' = submitted + 1
                     /\ Len(RelevantDecisions(agent_decisions'[e.symbol],
                                              e.correlation_id)) >= 2]_vars

\* a decision alone in the buffer saw a round of another correlation id
\* published and a minute pass
C35_WitnessWaiting ==
    /\ now > 0 /\ handlers = {}
    /\ \E e \in Lone :
          \E i \in 1..Len(rounds) :
              /\ rounds[i].id > e.sid
              /\ rounds[i].kind = "published"

\* a decision alone in the buffer while a round of its correlation id,
\* started before it arrived, is suspended
C35_WitnessOverlap ==
    \E e \in Lone :
        \E h \in handlers :
            /\ h.symbol = e.symbol /\ h.correlation_id = e.correlation_id
            /\ h.id < e.sid

(***************************************************************************)
(* The order-velocity bookkeeping (SpecEngine)                             *)
(***************************************************************************)
\* C36 as stated: in every reachable state of the engine check_order_risk
\* returns a result for a BUY or SELL; no sequence of checks over
\* successive minutes and daily resets makes the velocity bookkeeping
\* raise.
C36_NoVelocityFault ==
    /\ last.outcome = "error" => last.message # "KeyError"
    /\ \A s \in CheckSymbols, a \in OrderActions, q \in CheckQtys, p \in CheckPrices :
           LET r == check_order_risk(s, a, q, 1, p)
           IN  r.outcome = "error" => r.error # "KeyError"

\* the bookkeeping raises exactly when the window was rebuilt by an earlier
\* check and has no bucket for the current minute
C36_FaultOnlyOnRebuiltWindow ==
    /\ (last.outcome = "error" /\ last.message = "KeyError")
           => (~order_count_default /\ now \notin DOMAIN order_count)
    /\ \A s \in CheckSymbols, a \in OrderActions, q \in CheckQtys, p \in CheckPrices :
           LET r == check_order_risk(s, a, q, 1, p)
           IN  ReachesVelocity(s, a, q, p) =>
                   ((r.outcome = "error" /\ r.error = "KeyError")
                        <=> (~order_count_default /\ now \notin DOMAIN order_count))

\* a check raised in the minute after an allowed one
C36_WitnessNextMinute ==
    /\ last.outcome = "error" /\ last.message = "KeyError"
    /\ now = 1 /\ DOMAIN order_count = {0}

\* a check raised in the minute of an allowed one, after the daily reset
C36_WitnessAfterReset ==
    /\ last.outcome = "error" /\ last.message = "KeyError"
    /\ now = 0 /\ order_count = <<>>

(***************************************************************************)
(* Failed handling and redelivery of a decision (SpecDelivery)             *)
(***************************************************************************)
\* the delivery of a decision made in this step was answered with msg.nak()
NackedNow ==
    /\ Len(deliveries') = Len(deliveries) + 1
    /\ ~IsMalformed(deliveries'[Len(deliveries')].msg)
    /\ NackedIn(rounds', Len(deliveries'))

\* the pairs of buffered decisions that are deliveries of one message
Copies(buffer, made) ==
    {pair \in UNION {Sids(buffer[s]) \X Sids(buffer[s]) : s \in BufferSymbols} :
        /\ pair[1] < pair[2]
        /\ made[pair[1]].first = made[pair[2]].first}

\* C37 as stated: when the handling of a decision fails after it was
\* buffered and is nak'ed, the buffer is as it was before the delivery; so
\* no redelivery puts a second copy of a decision into the buffer, and no
\* vote runs on copies of one delivery.
C37_FailedHandlingLeavesBuffer ==
    [][/\ NackedNow => agent_decisions' = agent_decisions
       /\ Copies(agent_decisions', deliveries') = {}]_vars

\* what the code does: the decision of a nak'ed delivery stays buffered,
\* and copies appear only through the redelivery of such a decision
C37_FailedHandlingKeepsDecision ==
    [][/\ NackedNow =>
              LET msg == deliveries'[Len(deliveries')].msg
              IN  agent_decisions' =
                      [agent_decisions EXCEPT
                          ![msg.symbol] = Append(@, Delivered(msg, Len(deliveries')))]
       /\ \A pair \in Copies(agent_decisions', deliveries') \
                          Copies(agent_decisions, deliveries') :
              /\ pair[2] \in Redeliveries'
              /\ Nacked(pair[1])]_vars

\* a decision was nak'ed, delivered again, and the vote started by the
\* redelivery ran on both copies
C37_WitnessCopiesVoted ==
    \E pair \in Copies(agent_decisions, deliveries) :
        \E i \in 1..Len(rounds) :
            /\ rounds[i].id = pair[2]
            /\ {pair[1], pair[2]} \subseteq rounds[i].inputs

(***************************************************************************)
(* Publication and clean-up of a round (SpecService)                       *)
(***************************************************************************)
\* C38 as stated: a round removes decisions from the buffer only when its
\* coordinated decision was published; a round whose handler has ended
\* with a coordinated decision has that decision on decisions.meta.
C38_RemovedOnlyWhenPublished ==
    \A i \in 1..Len(rounds) :
        /\ rounds[i].removed # {} => PublishedOf(published, rounds[i].id) # {}
        /\ rounds[i].kind \in Coordinated => PublishedOf(published, rounds[i].id) # {}

\* what the code does: the clean-up follows the publication attempt
\* whatever its result, and a failed publication is never made up for
C38_CleanedUpWhateverTheResult ==
    /\ \A i \in 1..Len(rounds) :
          /\ rounds[i].kind = "published"
                 <=> PublishedOf(published, rounds[i].id) # {}
          /\ rounds[i].kind \in Coordinated => rounds[i].inputs \cap Buffered = {}
    /\ \A j \in 1..Len(published) :
          \/ \E i \in 1..Len(rounds) :
                rounds[i].id = published[j].round /\ rounds[i].kind = "published"
          \/ \E h \in handlers : h.id = published[j].round

\* a round ended with its publication failed, its decisions removed, and
\* nothing in flight that could publish again
C38_WitnessLost ==
    /\ handlers = {} /\ published = <<>> /\ Buffered = {}
    /\ \E i \in 1..Len(rounds) :
          rounds[i].kind = "publish_failed" /\ rounds[i].removed # {}

(***************************************************************************)
(* daily_pnl (SpecOperations)                                              *)
(***************************************************************************)
Revaluing == {"update_position", "update_market_prices", "reset_daily_counters"}

\* C39: at the end of every update_position, update_market_prices and
\* reset_daily_counters call daily_pnl is the sum over the positions of
\* quantity x current_price minus daily_start_value; no other operation
\* changes daily_pnl.
C39_DailyPnlIsMarkedToBaseline ==
    [][IF \E op \in Revaluing : Ran(op)
       THEN daily_pnl' = MarkedValue(positions') - daily_start_value'
       ELSE daily_pnl' = daily_pnl]_vars

\* a position bought after a reset was marked down by a sweep, and an emergency
\* stop left daily_pnl as it was
C39_Witness ==
    /\ Len(calls) = 4
    /\ calls[1].op = "reset_daily_counters"
    /\ calls[2].op = "update_position"
    /\ calls[3].op = "update_market_prices"
    /\ calls[4].op = "emergency_stop"
    /\ daily_start_value = 0
    /\ daily_pnl = 50000

\* a baseline other than 0: a held position, the reset, then a sweep
C39_WitnessBaseline ==
    /\ Len(calls) >= 3
    /\ LastCall.op = "update_market_prices"
    /\ daily_start_value = 100000
    /\ daily_pnl = -50000

(***************************************************************************)
(* What check_order_risk leaves alone (SpecEngine)                         *)
(***************************************************************************)
\* C40: whatever the order and the result, check_order_risk leaves the
\* positions, daily_pnl, the daily baseline, the kill switch, the blocked
\* symbols, the risk limits and the violation history unchanged; it
\* changes the velocity window only for a BUY or SELL that no check before
\* the velocity check denied.
C40_CheckIsPure ==
    [][Ran("check_order_risk") =>
          LET o == calls'[Len(calls')].args
          IN  /\ UNCHANGED <<positions, daily_pnl, daily_start_value,
                             kill_switch_active, blocked_symbols, risk_limits,
                             violations>>
              /\ <<order_count, order_count_default>>'
                      # <<order_count, order_count_default>>
                     => /\ o[2] \in OrderActions
                        /\ ReachesVelocity(o[1], o[2], o[3], o[4])]_vars

\* an order was denied by an earlier check in a state with a position, a
\* recorded violation and a counted order, and the window was not touched
C40_WitnessDenied ==
    /\ last.outcome = "denied" /\ last.violation_type # "velocity_limit"
    /\ LastCall.op = "check_order_risk"
    /\ positions # <<>> /\ violations # <<>> /\ daily_pnl # 0
    /\ order_count # <<>>

\* an allowed order was counted
C40_WitnessCounted ==
    /\ last.outcome = "allowed"
    /\ LastCall.op = "check_order_risk" /\ LastCall.args[2] \in OrderActions
    /\ now \in DOMAIN order_count /\ order_count[now] >= 1

\* a HOLD was allowed and not counted
C40_WitnessHold ==
    /\ last.outcome = "allowed"
    /\ LastCall.op = "check_order_risk" /\ LastCall.args[2] = "HOLD"
    /\ order_count = <<>>

====
